---- MODULE Spec2Model ----
(***************************************************************************)
(* A model of the VIF platform backend:                                    *)
(*   - the agent execution core (services/agent_core: BufferMemory,        *)
(*     Agent.run, Agent._execute_tool, the /run handler of app.py);        *)
(*   - the application store and its routers (storage/memory.py,           *)
(*     routers/apps.py, routers/orchestration.py, routers/agents.py).      *)
(*                                                                         *)
(* Texts (str values) are sequences of lines, a line is a sequence of      *)
(* tokens.  JSON documents are tokens named by their JSON text.            *)
(***************************************************************************)
EXTENDS Integers, Sequences, FiniteSets, TLC

VARIABLES
    agent,          \* the module-level Agent of app.py: its schemas
    memory,         \* the Agent's BufferMemory: max_messages, messages
    added,          \* history of the messages passed to BufferMemory.add
    th,             \* per thread: the frame of run_agent / Agent.run
    nextRun,        \* number of runs started so far
    apps,           \* InMemoryStorage._apps
    agents,         \* InMemoryStorage._agents
    orchestrations, \* InMemoryStorage._orchestrations
    issued,         \* number of ids uuid4 has produced, per kind of record
    served,         \* number of requests the store's routers have served
    validation,     \* the last answer of POST /orchestration/{app_id}/validate
    extraction      \* a call of _parse_json_output on its own: its argument, its result

vars == <<agent, memory, added, th, nextRun, apps, agents, orchestrations, issued, served,
          validation, extraction>>

agentVars == <<agent, memory, added, th, nextRun>>
storeVars == <<apps, agents, orchestrations, issued, served, validation>>

----------------------------------------------------------------------------
(* Bounds of the model *)

\* runs started in one behaviour
MaxRuns == 2
\* max_iterations passed by a direct caller of Agent.run ranges over 0..MaxIterArg
MaxIterArg == 1
\* tool-calling rounds of one run that are not a plain valid call
MaxFaults == 1
\* max_messages of a BufferMemory under test ranges over 0..MaxMaxMessages
MaxMaxMessages == 2
\* add calls on a BufferMemory under test
MaxAdds == 4
\* applications created in one behaviour, beside the seeded ones
MaxCreatedApps == 1
\* agents created in one behaviour
MaxCreatedAgents == 1
\* requests the store's routers serve in one behaviour
MaxRequests == 5
\* edges of a graph given to the validator
MaxEdges == 3
MaxDagEdges == 4
\* length of the strings, and number of items of the lists and dicts, serialized
MaxStringLen == 2
MaxItems == 2

(* Program constants *)
DefaultMaxIterations == 5
DefaultMaxMessages == 5

----------------------------------------------------------------------------
(* Python helpers *)

Min(a, b) == IF a < b THEN a ELSE b
Max(a, b) == IF a > b THEN a ELSE b

\* seq[start:] of Python, for any integer start
SliceFrom(seq, start) ==
    LET n == Len(seq)
        s == IF start < 0 THEN Max(n + start, 0) ELSE Min(start, n)
    IN  SubSeq(seq, s + 1, n)

----------------------------------------------------------------------------
(* BufferMemory (memory.py) *)

BufferMemory(max_messages) == [max_messages |-> max_messages, messages |-> <<>>]

BufferMemory_add(mem, message) ==
    LET appended == Append(mem.messages, message)
    IN  [mem EXCEPT !.messages = SliceFrom(appended, -mem.max_messages)]

BufferMemory_get(mem) == mem.messages

\* faulty variant: clear leaves the messages in place
BufferMemory_clear_noop(mem) == mem

BufferMemory_clear(mem) == [mem EXCEPT !.messages = <<>>]

----------------------------------------------------------------------------
(* Texts and JSON values *)

\* Python's None, where a str is expected
None == "None"
\* a message content that is None
NoneText == "<None>"
\* the empty str
EmptyText == ""

\* no answer of the validate endpoint yet
\* (app_id is the app the request named, at the number of requests served by then)
NoValidation ==
    [code |-> "none", valid |-> FALSE, errors |-> << >>, warnings |-> << >>,
     app_id |-> None, at |-> 0]

\* the code fence of three backticks, written with a character a string here can hold
Fence == "~~~"
\* the whitespace of str.strip() and of the JSON decoder
Whitespace == {" ", "\t", "\n", "\r"}

\* the values json.loads returns and json.dumps takes: None, True, False, int,
\* float (by its literal), str, list, dict (its items in insertion order)
JNull == <<"null">>
JBool(b) == <<IF b THEN "true" ELSE "false">>
JInt(n) == <<"int", n>>
JFloat(literal) == <<"float", literal>>
JStr(s) == <<"str", s>>
JArr(items) == <<"arr", items>>
JObj(members) == <<"obj", members>>
\* no value: a Python None where a value is expected
NoValue == <<"absent">>

JsonType(v) ==
    CASE v[1] = "obj" -> "object"
      [] v[1] = "arr" -> "array"
      [] v[1] = "int" -> "integer"
      [] v[1] = "float" -> "number"
      [] v[1] = "str" -> "string"
      [] v[1] \in {"true", "false"} -> "boolean"
      [] OTHER -> "null"

\* the JSON type of property k of v, "absent" when v is no object or has no such property
PropertyType(v, k) ==
    IF v[1] = "obj" /\ \E i \in 1..Len(v[2]) : v[2][i][1] = k
    THEN JsonType(v[2][CHOOSE i \in 1..Len(v[2]) : v[2][i][1] = k][2])
    ELSE "absent"

\* s[i], the empty str outside of s
Ch(s, i) == IF i >= 1 /\ i <= Len(s) THEN SubSeq(s, i, i) ELSE ""
StartsWithAt(s, i, prefix) ==
    i + Len(prefix) - 1 <= Len(s) /\ SubSeq(s, i, i + Len(prefix) - 1) = prefix
StartsWith(s, prefix) == StartsWithAt(s, 1, prefix)

RECURSIVE SkipWs(_, _)
SkipWs(s, i) == IF Ch(s, i) \in Whitespace THEN SkipWs(s, i + 1) ELSE i

RECURSIVE LastNonWs(_, _)
LastNonWs(s, i) == IF Ch(s, i) \in Whitespace THEN LastNonWs(s, i - 1) ELSE i

\* str.strip()
Strip(s) == SubSeq(s, SkipWs(s, 1), LastNonWs(s, Len(s)))

Digits == <<"0", "1", "2", "3", "4", "5", "6", "7", "8", "9">>
IsDigit(c) == \E d \in 1..10 : Digits[d] = c
DigitValue(c) == (CHOOSE d \in 1..10 : Digits[d] = c) - 1

RECURSIVE str_int(_)
str_int(n) ==
    IF n < 0 THEN "-" \o str_int(-n)
    ELSE IF n < 10 THEN Digits[n + 1]
    ELSE str_int(n \div 10) \o Digits[(n % 10) + 1]

RECURSIVE DigitsEnd(_, _)
DigitsEnd(s, i) == IF IsDigit(Ch(s, i)) THEN DigitsEnd(s, i + 1) ELSE i

RECURSIVE int_of(_, _, _, _)
int_of(s, i, end, acc) ==
    IF i >= end THEN acc ELSE int_of(s, i + 1, end, 10 * acc + DigitValue(Ch(s, i)))

\* the result of a decoding step: the value and the index after it
Decoded(value, end) == [ok |-> TRUE, value |-> value, end |-> end]
DecodeError == [ok |-> FALSE, value |-> NoValue, end |-> 0]

\* NUMBER_RE.match(s, idx): (-?(?:0|[1-9]\d*))(\.\d+)?([eE][-+]?\d+)?
match_number(s, idx) ==
    LET first == IF Ch(s, idx) = "-" THEN idx + 1 ELSE idx
        intEnd == IF Ch(s, first) = "0" THEN first + 1 ELSE DigitsEnd(s, first)
        fracEnd == IF Ch(s, intEnd) = "." /\ IsDigit(Ch(s, intEnd + 1))
                   THEN DigitsEnd(s, intEnd + 1) ELSE intEnd
        signEnd == IF Ch(s, fracEnd + 1) \in {"-", "+"} THEN fracEnd + 2 ELSE fracEnd + 1
        expEnd == IF Ch(s, fracEnd) \in {"e", "E"} /\ IsDigit(Ch(s, signEnd))
                  THEN DigitsEnd(s, signEnd) ELSE fracEnd
    IN  IF intEnd = first THEN DecodeError
        ELSE IF expEnd = intEnd
        THEN Decoded(JInt((IF first = idx THEN 1 ELSE -1) * int_of(s, first, intEnd, 0)), intEnd)
        ELSE Decoded(JFloat(SubSeq(s, idx, expEnd - 1)), expEnd)

Escapes == [c \in {"\"", "\\", "/", "n", "r", "t"} |->
    CASE c = "n" -> "\n" [] c = "r" -> "\r" [] c = "t" -> "\t" [] OTHER -> c]

\* py_scanstring, strict: from the character after the opening quote
RECURSIVE scanstring(_, _, _)
scanstring(s, end, acc) ==
    LET c == Ch(s, end)
    IN  IF c = "" THEN DecodeError
        ELSE IF c = "\"" THEN Decoded(acc, end + 1)
        ELSE IF c = "\\"
        THEN IF Ch(s, end + 1) \in DOMAIN Escapes
             THEN scanstring(s, end + 2, acc \o Escapes[Ch(s, end + 1)])
             ELSE DecodeError
        ELSE IF c \in {"\n", "\r", "\t"} THEN DecodeError
        ELSE scanstring(s, end + 1, acc \o c)

\* pairs with the value of key replaced (a dict keeps the place of the first) or added
RECURSIVE SetItem(_, _, _)
SetItem(pairs, key, value) ==
    IF pairs = << >> THEN << <<key, value>> >>
    ELSE IF Head(pairs)[1] = key THEN << <<key, value>> >> \o Tail(pairs)
    ELSE << Head(pairs) >> \o SetItem(Tail(pairs), key, value)

RECURSIVE scan_once(_, _)
RECURSIVE JSONObject(_, _, _)
RECURSIVE JSONArray(_, _, _)

\* the loop of JSONObject: end is at the opening quote of a key
JSONObject(s, end, pairs) ==
    LET key == scanstring(s, end + 1, "")
        colon == SkipWs(s, key.end)
        value == scan_once(s, SkipWs(s, colon + 1))
        next == SkipWs(s, value.end)
    IN  IF Ch(s, end) # "\"" THEN DecodeError
        ELSE IF ~key.ok THEN DecodeError
        ELSE IF Ch(s, colon) # ":" THEN DecodeError
        ELSE IF ~value.ok THEN DecodeError
        ELSE IF Ch(s, next) = "}"
        THEN Decoded(JObj(SetItem(pairs, key.value, value.value)), next + 1)
        ELSE IF Ch(s, next) = ","
        THEN JSONObject(s, SkipWs(s, next + 1), SetItem(pairs, key.value, value.value))
        ELSE DecodeError

\* the loop of JSONArray: end is where the next item starts
JSONArray(s, end, values) ==
    LET value == scan_once(s, end)
        next == SkipWs(s, value.end)
    IN  IF ~value.ok THEN DecodeError
        ELSE IF Ch(s, next) = "]" THEN Decoded(JArr(Append(values, value.value)), next + 1)
        ELSE IF Ch(s, next) = "," THEN JSONArray(s, SkipWs(s, next + 1), Append(values, value.value))
        ELSE DecodeError

\* json.scanner.py_make_scanner._scan_once
scan_once(s, idx) ==
    LET nextchar == Ch(s, idx)
    IN  IF nextchar = "\""
        THEN LET r == scanstring(s, idx + 1, "")
             IN  IF r.ok THEN Decoded(JStr(r.value), r.end) ELSE DecodeError
        ELSE IF nextchar = "{"
        THEN IF Ch(s, SkipWs(s, idx + 1)) = "}"
             THEN Decoded(JObj(<< >>), SkipWs(s, idx + 1) + 1)
             ELSE JSONObject(s, SkipWs(s, idx + 1), << >>)
        ELSE IF nextchar = "["
        THEN IF Ch(s, SkipWs(s, idx + 1)) = "]"
             THEN Decoded(JArr(<< >>), SkipWs(s, idx + 1) + 1)
             ELSE JSONArray(s, SkipWs(s, idx + 1), << >>)
        ELSE IF StartsWithAt(s, idx, "null") THEN Decoded(JNull, idx + 4)
        ELSE IF StartsWithAt(s, idx, "true") THEN Decoded(JBool(TRUE), idx + 4)
        ELSE IF StartsWithAt(s, idx, "false") THEN Decoded(JBool(FALSE), idx + 5)
        ELSE IF match_number(s, idx).ok THEN match_number(s, idx)
        ELSE IF StartsWithAt(s, idx, "NaN") THEN Decoded(JFloat("NaN"), idx + 3)
        ELSE IF StartsWithAt(s, idx, "Infinity") THEN Decoded(JFloat("Infinity"), idx + 8)
        ELSE IF StartsWithAt(s, idx, "-Infinity") THEN Decoded(JFloat("-Infinity"), idx + 9)
        ELSE DecodeError

\* json.loads of a str: one value, whitespace around it allowed
json_loads(s) ==
    LET r == scan_once(s, SkipWs(s, 1))
    IN  IF r.ok /\ SkipWs(s, r.end) = Len(s) + 1
        THEN [ok |-> TRUE, value |-> r.value, exc |-> ""]
        ELSE [ok |-> FALSE, value |-> NoValue, exc |-> "JSONDecodeError"]


RECURSIVE py_encode_basestring_ascii(_)
py_encode_basestring_ascii(s) ==
    IF s = "" THEN ""
    ELSE (CASE Head(s) = "\"" -> "\\\""
            [] Head(s) = "\\" -> "\\\\"
            [] Head(s) = "\n" -> "\\n"
            [] Head(s) = "\r" -> "\\r"
            [] Head(s) = "\t" -> "\\t"
            [] OTHER -> Head(s))
         \o py_encode_basestring_ascii(Tail(s))

RECURSIVE json_dumps(_)
RECURSIVE DumpItems(_)
RECURSIVE DumpPairs(_)
DumpItems(values) ==
    IF values = << >> THEN ""
    ELSE json_dumps(Head(values))
         \o (IF Len(values) > 1 THEN ", " ELSE "") \o DumpItems(Tail(values))
DumpPairs(pairs) ==
    IF pairs = << >> THEN ""
    ELSE "\"" \o py_encode_basestring_ascii(Head(pairs)[1]) \o "\": "
         \o json_dumps(Head(pairs)[2])
         \o (IF Len(pairs) > 1 THEN ", " ELSE "") \o DumpPairs(Tail(pairs))
json_dumps(v) ==
    CASE v[1] = "null" -> "null"
      [] v[1] = "true" -> "true"
      [] v[1] = "false" -> "false"
      [] v[1] = "int" -> str_int(v[2])
      [] v[1] = "float" -> v[2]
      [] v[1] = "str" -> "\"" \o py_encode_basestring_ascii(v[2]) \o "\""
      [] v[1] = "arr" -> "[" \o DumpItems(v[2]) \o "]"
      [] v[1] = "obj" -> "{" \o DumpPairs(v[2]) \o "}"

\* str.splitlines(): the lines of s, line ends dropped, from position i on
RECURSIVE LineEnd(_, _)
LineEnd(s, i) == IF i > Len(s) \/ Ch(s, i) \in {"\n", "\r"} THEN i ELSE LineEnd(s, i + 1)
RECURSIVE splitlines(_, _)
splitlines(s, i) ==
    IF i > Len(s) THEN << >>
    ELSE LET e == LineEnd(s, i)
         IN  << SubSeq(s, i, e - 1) >>
             \o splitlines(s, IF StartsWithAt(s, e, "\r\n") THEN e + 2 ELSE e + 1)

\* "\n".join(lines)
RECURSIVE join(_)
join(lines) ==
    IF lines = << >> THEN ""
    ELSE Head(lines) \o (IF Len(lines) > 1 THEN "\n" ELSE "") \o join(Tail(lines))

_strip_code_fences(text) ==
    LET stripped == Strip(text)
        lines == splitlines(stripped, 1)
    IN  IF ~StartsWith(stripped, Fence) THEN text
        ELSE IF Len(lines) < 2 THEN text
        ELSE IF ~StartsWith(lines[1], Fence) THEN text
        ELSE IF ~StartsWith(Strip(lines[Len(lines)]), Fence) THEN text
        ELSE Strip(join(SubSeq(lines, 2, Len(lines) - 1)))

\* the scan of _parse_json_output: the first '{' or '[' from which a value decodes
RECURSIVE raw_decode_scan(_, _)
raw_decode_scan(cleaned, idx) ==
    IF idx > Len(cleaned) THEN [ok |-> FALSE, value |-> NoValue, exc |-> "JSONDecodeError"]
    ELSE IF Ch(cleaned, idx) \in {"{", "["} /\ scan_once(cleaned, idx).ok
    THEN [ok |-> TRUE, value |-> scan_once(cleaned, idx).value, exc |-> ""]
    ELSE raw_decode_scan(cleaned, idx + 1)

\* json.loads of what may be None
json_loads_any(s) ==
    IF s = NoneText
    THEN [ok |-> FALSE, value |-> NoValue, exc |-> "TypeError"]
    ELSE json_loads(s)

\* _parse_json_output returns value, or raises ValueError(msg)
Parsed(value) == [ok |-> TRUE, value |-> value, msg |-> ""]
ParseError(msg) == [ok |-> FALSE, value |-> NoValue, msg |-> msg]

\* faulty variant: a text that does not parse is returned as a null result
_parse_json_output_lenient(text) ==
    LET cleaned == IF text = NoneText THEN "" ELSE Strip(_strip_code_fences(text))
    IN  IF json_loads(cleaned).ok THEN Parsed(json_loads(cleaned).value)
        ELSE Parsed(JNull)

\* faulty variant: json.loads of the text as it is, fences and prose included
_parse_json_output_asIs(text) ==
    IF text = NoneText \/ Strip(text) = EmptyText
    THEN ParseError("Invalid output: empty response")
    ELSE IF json_loads(Strip(text)).ok THEN Parsed(json_loads(Strip(text)).value)
    ELSE ParseError("Invalid output: could not parse JSON")

\* faulty variant: the scan for the first '{' or '[' comes before json.loads of the whole
_parse_json_output_scanFirst(text) ==
    IF text = NoneText THEN ParseError("Invalid output: empty response")
    ELSE LET cleaned == Strip(_strip_code_fences(text))
         IN  IF cleaned = "" THEN ParseError("Invalid output: empty response")
             ELSE IF raw_decode_scan(cleaned, 1).ok
             THEN Parsed(raw_decode_scan(cleaned, 1).value)
             ELSE IF json_loads(cleaned).ok THEN Parsed(json_loads(cleaned).value)
             ELSE ParseError("Invalid output: could not parse JSON")

_parse_json_output(text) ==
    IF text = NoneText THEN ParseError("Invalid output: empty response")
    ELSE LET cleaned == Strip(_strip_code_fences(text))
         IN  IF cleaned = "" THEN ParseError("Invalid output: empty response")
             ELSE IF json_loads(cleaned).ok THEN Parsed(json_loads(cleaned).value)
             ELSE IF raw_decode_scan(cleaned, 1).ok
             THEN Parsed(raw_decode_scan(cleaned, 1).value)
             ELSE ParseError("Invalid output: could not parse JSON")

\* no call of _parse_json_output on its own yet
NoExtraction ==
    [pc |-> "none", value |-> NoValue, text |-> "", inside |-> NoValue,
     parsed |-> ParseError("")]

----------------------------------------------------------------------------
(* JSON Schema validation (Agent._validate, jsonschema.validate) *)

\* schemas: absent, the empty schema {}, or an object schema with one required property
NoSchema == [present |-> FALSE, empty |-> TRUE, required |-> "", property_type |-> ""]
EmptySchema == [present |-> TRUE, empty |-> TRUE, required |-> "", property_type |-> ""]
InputSchema == [present |-> TRUE, empty |-> FALSE, required |-> "id", property_type |-> "string"]
OutputSchema == [present |-> TRUE, empty |-> FALSE, required |-> "value", property_type |-> "integer"]

\* jsonschema.validate(instance, schema) raises no ValidationError
Conforms(schema, instance) ==
    \/ schema.empty
    \/ /\ JsonType(instance) = "object"
       /\ PropertyType(instance, schema.required) = schema.property_type

\* `not schema`
SchemaFalsy(schema) == ~schema.present \/ schema.empty

\* faulty variant: the schema is never consulted
Agent_validate_skip(schema, data) == TRUE

\* Agent._validate returns normally (TRUE) or raises ValueError (FALSE)
Agent_validate(schema, data) ==
    IF SchemaFalsy(schema) THEN TRUE ELSE Conforms(schema, data)

----------------------------------------------------------------------------
(* Messages, prompt, schema instruction (prompt.py, schema.py) *)

Threads == {1, 2}

NoId == << >>

\* a chat message; run is the run that produced it (not a field of the code's dict)
Message(role, content, run) ==
    [role |-> role, content |-> content, tool_calls |-> << >>,
     tool_call_id |-> NoId, name |-> "", run |-> run]

\* the configured prompt: role and template, a template being its literal
\* pieces and the placeholder {{payload}}
PromptTemplates ==
    << [role |-> "system", template |-> << "You are an agent." >>],
       [role |-> "user", template |-> << "Task: ", "{{payload}}" >>] >>

\* str(payload), as jinja2 writes a dict
jinja_str(payload) ==
    IF payload = JObj(<< >>) THEN "{}"
    ELSE IF payload = JObj(<< <<"id", JStr("x")>> >>) THEN "{'id': 'x'}"
    ELSE "{...}"

\* jinja2 Template.render with payload bound
RECURSIVE RenderTemplate(_, _)
RenderTemplate(template, payload) ==
    IF template = << >> THEN ""
    ELSE (IF Head(template) = "{{payload}}" THEN jinja_str(payload) ELSE Head(template))
         \o RenderTemplate(Tail(template), payload)

Prompt_render(payload, run) ==
    [i \in 1..Len(PromptTemplates) |->
        Message(PromptTemplates[i].role,
                RenderTemplate(PromptTemplates[i].template, payload), run)]

build_schema_system_prompt(schema, run) ==
    Message("system",
            "You must output JSON that strictly matches this schema. "
                \o "Output JSON only, with no extra text.\n\nSchema:\n"
                \o schema.required \o ": " \o schema.property_type,
            run)

----------------------------------------------------------------------------
(* Tools (Agent.tools, Agent._execute_tool) *)

\* names of the registered tools
ToolNames == {"lookup"}

\* what a tool's run does when it is reached
ToolBehaviours == {"dict", "none", "raise", "unserializable"}

ArgsObject == "{\"id\":\"x\"}"
ArgsBadJson == "{bad"
ArgsArray == "[1]"
ArgsNull == NoneText

\* json.loads of every argument text a tool call can carry, computed once
ArgumentTexts == {ArgsObject, ArgsBadJson, ArgsArray, ArgsNull}
ParsedArguments == [a \in ArgumentTexts |-> json_loads_any(a)]

\* what the lookup tool returns when its run returns a dict
LookupResult == JObj(<< <<"value", JInt(42)>> >>)

\* Agent._execute_tool from `arguments = json.loads(tool_call.arguments)` on:
\* the text it returns, or the exception that leaves it
_execute_tool_loaded(arguments, tool_call, behaviour) ==
    IF ~arguments.ok /\ arguments.exc = "JSONDecodeError"
    THEN [raised |-> FALSE, exc |-> "", text |-> "Error: Invalid JSON arguments"]
    ELSE IF ~arguments.ok
    THEN \* json.loads(None): TypeError, which the except clause does not name
         [raised |-> TRUE, exc |-> arguments.exc, text |-> EmptyText]
    ELSE IF tool_call.name \notin ToolNames
    THEN [raised |-> FALSE, exc |-> "", text |-> "Error: Tool not found"]
    ELSE IF JsonType(arguments.value) # "object"
    THEN \* run(**arguments) with no mapping: TypeError inside the try
         [raised |-> FALSE, exc |-> "", text |-> "Error executing"]
    ELSE IF behaviour = "dict"
    THEN [raised |-> FALSE, exc |-> "", text |-> json_dumps(LookupResult)]
    ELSE IF behaviour = "none"
    THEN [raised |-> FALSE, exc |-> "", text |-> "null"]
    ELSE \* the tool raises, or json.dumps of its result raises
         [raised |-> FALSE, exc |-> "", text |-> "Error executing"]

\* Agent._execute_tool
_execute_tool(tool_call, behaviour) ==
    _execute_tool_loaded(ParsedArguments[tool_call.arguments], tool_call, behaviour)

----------------------------------------------------------------------------
(* Model client responses (llm_providers.py: what generate can return) *)

TextJson == "{\"value\":42}"
TextFenced == Fence \o "json\n{\"value\":42}\n" \o Fence
TextHello == "hello"
TextWrongType == "{\"value\":\"x\"}"
TextProse == "Here {\"value\":42}"

Call(name, arguments) == [name |-> name, arguments |-> arguments]
PlainCalls == << Call("lookup", ArgsObject) >>

Raises == [kind |-> "raise", content |-> EmptyText, calls |-> << >>]
Answers(content) == [kind |-> "message", content |-> content, calls |-> << >>]
Requests(calls) == [kind |-> "message", content |-> NoneText, calls |-> calls]

\* response.usage: None (or no such attribute), an object or a dict; its
\* total_tokens an int, None, or not there
NoTokens == <<"None">>
Missing == <<"missing">>
Tokens(n) == <<"int", n>>
NoUsage == [kind |-> "none", total_tokens |-> Missing]
UsageObject(total_tokens) == [kind |-> "object", total_tokens |-> total_tokens]
UsageDict(total_tokens) == [kind |-> "dict", total_tokens |-> total_tokens]
Usages ==
    {NoUsage, UsageObject(Tokens(3)), UsageObject(Tokens(7)), UsageObject(NoTokens),
     UsageDict(Tokens(5)), UsageDict(NoTokens), UsageDict(Missing)}
\* the usage an OpenAI response carries
PlainUsages == {UsageObject(Tokens(7))}

\* the total_tokens a usage reports, 0 when it reports none
TotalTokens(usage) ==
    IF usage.kind # "none" /\ usage.total_tokens[1] = "int" THEN usage.total_tokens[2] ELSE 0

\* faulty variant: a usage that is a dict is not looked into
metrics_tokens_attrOnly(last_usage) ==
    IF last_usage.kind = "object" /\ last_usage.total_tokens[1] = "int"
    THEN last_usage.total_tokens[2] ELSE 0

\* lines 172-178: tokens = 0, then getattr, dict.get and the None test
metrics_tokens(last_usage) ==
    LET getattr == IF last_usage.kind = "object" /\ last_usage.total_tokens # Missing
                   THEN last_usage.total_tokens ELSE NoTokens
        get == IF last_usage.total_tokens = Missing THEN Tokens(0)
               ELSE last_usage.total_tokens
        tokens == IF getattr = NoTokens /\ last_usage.kind = "dict" THEN get ELSE getattr
    IN  IF last_usage.kind = "none" THEN 0
        ELSE IF tokens = NoTokens THEN 0
        ELSE tokens[2]

\* every kind of response
FullMenu ==
    {Raises}
    \cup {Answers(c) : c \in {TextJson, TextFenced, TextHello, TextWrongType, TextProse, NoneText}}
    \cup {Requests(cs) : cs \in {PlainCalls,
                                 << Call("lookup", ArgsBadJson) >>,
                                 << Call("lookup", ArgsArray) >>,
                                 << Call("lookup", ArgsNull) >>,
                                 << Call("nosuch", ArgsObject) >>,
                                 << Call("lookup", ArgsObject), Call("nosuch", ArgsObject) >>}}

\* the extraction of every text a response can carry, computed once
FinalTexts == {IF r.content = NoneText THEN EmptyText ELSE r.content : r \in FullMenu}
ParsedFinalText == [text \in FinalTexts |-> _parse_json_output(text)]

\* the responses of a well-behaved exchange
BasicMenu == {Answers(TextJson), Answers(TextHello), Requests(PlainCalls)}

----------------------------------------------------------------------------
(* The frame of one request: run_agent (app.py) calling Agent.run (agent.py) *)

NoOutcome ==
    [status |-> "none", trace_id |-> None, result |-> NoValue,
     exc_type |-> "", exc_msg |-> "", tokens |-> 0]

NoHttp ==
    [kind |-> "none", trace_id |-> None, status |-> "",
     result |-> [key |-> "", v |-> None], metrics |-> [tokens |-> 0, latency_ms |-> ""]]

IdleFrame ==
    [pc |-> "idle", via |-> "", trace_id |-> None, input_data |-> NoValue,
     max_iterations |-> 0, run |-> 0,
     prompt_messages |-> << >>, messages |-> << >>, iteration |-> 0,
     tool_calls |-> << >>, tc |-> 0, final_text |-> EmptyText, last_usage |-> NoUsage,
     outcome |-> NoOutcome, http |-> NoHttp,
     \* bookkeeping of the run, not state of the code
     gen_calls |-> 0, tool_responses |-> 0, tools_run |-> 0, rendered |-> FALSE,
     mem_adds |-> 0, faults |-> 0, llm_raised |-> FALSE, cleared |-> 0,
     usage_sum |-> 0]

\* raise exc_type(exc_msg) out of Agent.run
Raise(f, exc_type, exc_msg) ==
    [f EXCEPT !.pc = "raised",
              !.outcome = [NoOutcome EXCEPT !.status = "error",
                                            !.exc_type = exc_type, !.exc_msg = exc_msg]]

\* faulty variant: the loop test admits one more iteration
LoopTest_offByOne(f) ==
    IF f.iteration <= f.max_iterations
    THEN [f EXCEPT !.pc = "generate"]
    ELSE Raise(f, "RuntimeError", "Max iterations reached")

\* `while iteration < max_iterations` and the raise after the loop
LoopTest(f) ==
    IF f.iteration < f.max_iterations
    THEN [f EXCEPT !.pc = "generate"]
    ELSE Raise(f, "RuntimeError", "Max iterations reached")

\* `trace_id or str(uuid.uuid4())`
TraceIdOrFresh(trace_id) == IF trace_id \in {None, ""} THEN "uuid4" ELSE trace_id

\* the classes `except Exception` catches
ExceptionSubclasses == {"ValueError", "RuntimeError", "TypeError", "APIError"}

\* faulty variant: the handler catches ValueError only
run_agent_response_valueErrorOnly(f) ==
    IF f.pc = "returned"
    THEN [kind |-> "response", trace_id |-> f.outcome.trace_id, status |-> "success",
          result |-> [key |-> "value", v |-> f.outcome.result],
          metrics |-> [tokens |-> f.outcome.tokens, latency_ms |-> "int"]]
    ELSE IF f.outcome.exc_type = "ValueError"
    THEN [kind |-> "response", trace_id |-> f.trace_id, status |-> "error",
          result |-> [key |-> "error", v |-> f.outcome.exc_msg],
          metrics |-> [tokens |-> 0, latency_ms |-> "int"]]
    ELSE [NoHttp EXCEPT !.kind = "exception"]

\* what run_agent returns: Agent.run's dict, or the dict built by the except clause
run_agent_response(f) ==
    IF f.pc = "returned"
    THEN [kind |-> "response", trace_id |-> f.outcome.trace_id, status |-> "success",
          result |-> [key |-> "value", v |-> f.outcome.result],
          metrics |-> [tokens |-> f.outcome.tokens, latency_ms |-> "int"]]
    ELSE IF f.outcome.exc_type \in ExceptionSubclasses
    THEN [kind |-> "response", trace_id |-> f.trace_id, status |-> "error",
          result |-> [key |-> "error", v |-> f.outcome.exc_msg],
          metrics |-> [tokens |-> 0, latency_ms |-> "int"]]
    ELSE [NoHttp EXCEPT !.kind = "exception"]

----------------------------------------------------------------------------
(* Actions of a request *)

Idle(t) == th[t].pc \in {"idle", "done"}

NewFrame(via, trace_id, input_data, max_iterations) ==
    [IdleFrame EXCEPT !.pc = "clear", !.via = via, !.trace_id = trace_id,
                      !.input_data = IF input_data = NoValue THEN JObj(<< >>) ELSE input_data,
                      !.max_iterations = max_iterations, !.run = nextRun + 1]

\* POST /run (app.py): the handler calls agent.run with the default max_iterations
run_agent(t, trace_id, payload) ==
    /\ Idle(t)
    /\ nextRun < MaxRuns
    /\ th' = [th EXCEPT ![t] = NewFrame("handler", trace_id, payload, DefaultMaxIterations)]
    /\ nextRun' = nextRun + 1
    /\ UNCHANGED <<agent, memory, added, storeVars, extraction>>

\* a direct call of Agent.run (agent.py lines 78-87)
Agent_run(t, trace_id, input_data, max_iterations) ==
    /\ Idle(t)
    /\ nextRun < MaxRuns
    /\ th' = [th EXCEPT ![t] = NewFrame("direct", trace_id, input_data, max_iterations)]
    /\ nextRun' = nextRun + 1
    /\ UNCHANGED <<agent, memory, added, storeVars, extraction>>

\* self.memory.clear()
Clear(t) ==
    /\ th[t].pc = "clear"
    /\ memory' = BufferMemory_clear(memory)
    /\ th' = [th EXCEPT ![t].pc = "validate_input",
                         ![t].cleared = Len(memory.messages)]
    /\ UNCHANGED <<agent, added, nextRun, storeVars, extraction>>

\* self._validate(self.input_schema, input_data, "input")
ValidateInput(t) ==
    LET f == th[t]
    IN  /\ f.pc = "validate_input"
        /\ th' = [th EXCEPT ![t] =
                    IF Agent_validate(agent.input_schema, f.input_data)
                    THEN [f EXCEPT !.pc = "render"]
                    ELSE Raise(f, "ValueError", "Invalid input")]
        /\ UNCHANGED <<agent, memory, added, nextRun, storeVars, extraction>>

\* prompt_messages = self.prompt.render(**render_vars)
Render(t) ==
    LET f == th[t]
    IN  /\ f.pc = "render"
        /\ th' = [th EXCEPT ![t] =
                    [f EXCEPT !.pc = "build", !.rendered = TRUE,
                              !.prompt_messages = Prompt_render(f.input_data, f.run)]]
        /\ UNCHANGED <<agent, memory, added, nextRun, storeVars, extraction>>

\* the initial message list (lines 100-104)
InitialMessages(f, mem) ==
    (IF ~SchemaFalsy(agent.output_schema)
     THEN << build_schema_system_prompt(agent.output_schema, f.run) >>
     ELSE << >>)
    \o f.prompt_messages \o BufferMemory_get(mem)

\* lines 100-114, up to the first loop test
Build(t) ==
    LET f == th[t]
    IN  /\ f.pc = "build"
        /\ th' = [th EXCEPT ![t] =
                    LoopTest([f EXCEPT !.messages = InitialMessages(f, memory),
                                       !.iteration = 0])]
        /\ UNCHANGED <<agent, memory, added, nextRun, storeVars, extraction>>

\* the assistant message appended in the tool-calling branch (lines 125-139)
AssistantToolMessage(content, tool_calls, run) ==
    [Message("assistant", IF content = NoneText THEN EmptyText ELSE content, run)
        EXCEPT !.tool_calls = tool_calls]

\* faulty variant: the tool message names the tool, not the call
ToolMessage_noCallId(tool_call, result, run) ==
    [Message("tool", result, run) EXCEPT !.name = tool_call.name]

\* the tool message appended per call (lines 144-149)
ToolMessage(tool_call, result, run) ==
    [Message("tool", result, run)
        EXCEPT !.tool_call_id = tool_call.id, !.name = tool_call.name]

\* response = self.llm.generate(messages, tools=tool_schemas), and the branch on it
Generate(t, menu, usages) ==
    LET f == th[t]
    IN  /\ f.pc = "generate"
        /\ \E r \in menu, usage \in usages :
            /\ (r.calls \notin {<< >>, PlainCalls}) => f.faults < MaxFaults
            /\ LET g == [f EXCEPT !.gen_calls = @ + 1,
                                  !.usage_sum = IF r.kind = "raise" THEN @
                                                ELSE @ + TotalTokens(usage)]
                   tool_calls == [i \in 1..Len(r.calls) |->
                                    [id |-> <<g.gen_calls, i>>, name |-> r.calls[i].name,
                                     arguments |-> r.calls[i].arguments]]
               IN  th' = [th EXCEPT ![t] =
                     IF r.kind = "raise"
                     THEN Raise([g EXCEPT !.llm_raised = TRUE], "APIError", "model client failure")
                     ELSE IF r.calls # << >>
                     THEN [g EXCEPT !.pc = "tool", !.last_usage = usage,
                                    !.tool_calls = tool_calls, !.tc = 1,
                                    !.tool_responses = @ + 1,
                                    !.faults = IF r.calls = PlainCalls THEN @ ELSE @ + 1,
                                    !.messages = Append(@,
                                        AssistantToolMessage(r.content, tool_calls, g.run))]
                     ELSE [g EXCEPT !.pc = "memory_add", !.last_usage = usage,
                                    !.tool_calls = << >>,
                                    !.final_text = IF r.content = NoneText
                                                   THEN EmptyText ELSE r.content]]
        /\ UNCHANGED <<agent, memory, added, nextRun, storeVars, extraction>>

\* the call reaches the tool's run with keyword arguments
ReachesRun(tool_call) ==
    LET Mapping(arguments) == arguments.ok /\ JsonType(arguments.value) = "object"
    IN  Mapping(ParsedArguments[tool_call.arguments]) /\ tool_call.name \in ToolNames

\* lines 142-155 once _execute_tool gave r, or raised: the tool message is
\* appended, the next call or the next iteration follows
AfterTool(f, tool_call, behaviour, r) ==
    LET g == [f EXCEPT !.tools_run = @ + 1,
                       !.faults = IF behaviour = "dict" THEN @ ELSE @ + 1]
        h == [g EXCEPT !.messages = Append(@, ToolMessage(tool_call, r.text, g.run))]
    IN  IF r.raised THEN Raise(g, r.exc, "tool call failed")
        ELSE IF f.tc < Len(f.tool_calls) THEN [h EXCEPT !.tc = @ + 1]
        ELSE LoopTest([h EXCEPT !.iteration = @ + 1])

\* one pass of `for tool_call in assistant_message.tool_calls` (lines 141-155)
ExecuteTool(t, behaviours) ==
    LET f == th[t]
        tool_call == f.tool_calls[f.tc]
    IN  /\ f.pc = "tool"
        /\ \E b \in behaviours :
            /\ b # "dict" => (ReachesRun(tool_call) /\ f.faults < MaxFaults)
            /\ th' = [th EXCEPT ![t] =
                        AfterTool(f, tool_call, b, _execute_tool(tool_call, b))]
        /\ UNCHANGED <<agent, memory, added, nextRun, storeVars, extraction>>

\* faulty variant: the last message of the working list is persisted
FinalMessage_lastOfList(f) ==
    IF f.messages # << >> THEN f.messages[Len(f.messages)]
    ELSE Message("assistant", f.final_text, f.run)

\* the message persisted for the final answer (lines 162-165)
FinalMessage(f) == Message("assistant", f.final_text, f.run)

\* faulty variant: the final text is persisted only once it was extracted and
\* validated
MemoryAdd_afterExtraction(t) ==
    LET f == th[t]
        parsed == ParsedFinalText[f.final_text]
        accepted == parsed.ok /\ Agent_validate(agent.output_schema, parsed.value)
    IN  /\ f.pc = "memory_add"
        /\ memory' = IF accepted THEN BufferMemory_add(memory, FinalMessage(f)) ELSE memory
        /\ th' = [th EXCEPT ![t] = [f EXCEPT !.pc = "extract",
                                             !.mem_adds = IF accepted THEN @ + 1 ELSE @]]
        /\ UNCHANGED <<agent, added, nextRun, storeVars, extraction>>

\* self.memory.add({"role": "assistant", "content": final_text})
MemoryAdd(t) ==
    LET f == th[t]
    IN  /\ f.pc = "memory_add"
        /\ memory' = BufferMemory_add(memory, FinalMessage(f))
        /\ th' = [th EXCEPT ![t] = [f EXCEPT !.pc = "extract", !.mem_adds = @ + 1]]
        /\ UNCHANGED <<agent, added, nextRun, storeVars, extraction>>

\* faulty variant: without an output_schema the final text is the result
Extract_schemaOnly(t) ==
    LET f == th[t]
        Outcome(parsed) ==
            IF ~SchemaFalsy(agent.output_schema) /\ ~parsed.ok
            THEN Raise(f, "ValueError", parsed.msg)
            ELSE IF ~SchemaFalsy(agent.output_schema)
                    /\ ~Agent_validate(agent.output_schema, parsed.value)
            THEN Raise(f, "ValueError", "Invalid output")
            ELSE [f EXCEPT !.pc = "returned",
                           !.outcome = [NoOutcome EXCEPT
                                !.status = "success",
                                !.trace_id = TraceIdOrFresh(f.trace_id),
                                !.result = IF parsed.ok THEN parsed.value ELSE JStr(f.final_text),
                                !.tokens = metrics_tokens(f.last_usage)]]
    IN  /\ f.pc = "extract"
        /\ th' = [th EXCEPT ![t] = Outcome(ParsedFinalText[f.final_text])]
        /\ UNCHANGED <<agent, memory, added, nextRun, storeVars, extraction>>

\* lines 167-188: extraction, output validation, the success dict
Extract(t) ==
    LET f == th[t]
        \* the steps after `parsed = _parse_json_output(final_text)`
        Outcome(parsed) ==
            IF ~parsed.ok
            THEN Raise(f, "ValueError", parsed.msg)
            ELSE IF ~Agent_validate(agent.output_schema, parsed.value)
            THEN Raise(f, "ValueError", "Invalid output")
            ELSE [f EXCEPT !.pc = "returned",
                           !.outcome = [NoOutcome EXCEPT
                                !.status = "success",
                                !.trace_id = TraceIdOrFresh(f.trace_id),
                                !.result = parsed.value,
                                !.tokens = metrics_tokens(f.last_usage)]]
    IN  /\ f.pc = "extract"
        /\ th' = [th EXCEPT ![t] = Outcome(ParsedFinalText[f.final_text])]
        /\ UNCHANGED <<agent, memory, added, nextRun, storeVars, extraction>>

\* Agent.run returns or raises to its caller, its locals are gone;
\* run_agent answers the request
Return(t) ==
    LET f == th[t]
    IN  /\ f.pc \in {"returned", "raised"}
        /\ th' = [th EXCEPT ![t] =
                    [f EXCEPT !.pc = "done",
                              !.prompt_messages = << >>, !.messages = << >>,
                              !.tool_calls = << >>, !.tc = 0, !.last_usage = NoUsage,
                              !.usage_sum = 0,
                              !.http = IF f.via = "handler" THEN run_agent_response(f)
                                       ELSE NoHttp]]
        /\ UNCHANGED <<agent, memory, added, nextRun, storeVars, extraction>>

\* the requests and calls enumerated
TraceIds == {"t1", ""}
Payloads == {JObj(<< <<"id", JStr("x")>> >>), JObj(<< >>)}

\* the steps of a request once started
RunStep(t, menu, behaviours, usages) ==
    \/ Clear(t)
    \/ ValidateInput(t)
    \/ Render(t)
    \/ Build(t)
    \/ Generate(t, menu, usages)
    \/ ExecuteTool(t, behaviours)
    \/ MemoryAdd(t)
    \/ Extract(t)
    \/ Return(t)

\* the Agent built by AgentFactory.create: both schemas or none, a BufferMemory
AgentConfigs ==
    {[input_schema |-> NoSchema, output_schema |-> NoSchema],
     [input_schema |-> InputSchema, output_schema |-> OutputSchema]}

\* the agent runtime (app.py) is a process of its own: it holds no store
StoreIdle ==
    /\ apps = << >>
    /\ agents = << >>
    /\ orchestrations = << >>
    /\ issued = [app |-> 0, agent |-> 0]
    /\ served = 0
    /\ validation = NoValidation

AgentInit ==
    /\ agent \in AgentConfigs
    /\ memory = BufferMemory(DefaultMaxMessages)
    /\ added = << >>
    /\ th = [t \in Threads |-> IdleFrame]
    /\ nextRun = 0
    /\ StoreIdle
    /\ extraction = NoExtraction

\* requests served one after another, every kind of model response
Next ==
    \E t \in {1} :
        \/ \E tr \in TraceIds, p \in Payloads : run_agent(t, tr, p)
        \/ \E tr \in TraceIds \cup {None}, p \in Payloads \cup {NoValue}, mi \in 0..MaxIterArg :
                Agent_run(t, tr, p, mi)
        \/ RunStep(t, FullMenu, ToolBehaviours, PlainUsages)
Spec == AgentInit /\ [][Next]_vars

\* requests served one after another by an agent whose output schema file holds {}
EmptySchemaInit ==
    /\ agent = [input_schema |-> InputSchema, output_schema |-> EmptySchema]
    /\ memory = BufferMemory(DefaultMaxMessages)
    /\ added = << >>
    /\ th = [t \in Threads |-> IdleFrame]
    /\ nextRun = 0
    /\ StoreIdle
    /\ extraction = NoExtraction
EmptySchemaSpec == EmptySchemaInit /\ [][Next]_vars

\* requests served one after another, the responses reporting every kind of usage
UsageNext ==
    \E t \in {1} :
        \/ \E tr \in TraceIds, p \in Payloads : run_agent(t, tr, p)
        \/ \E tr \in TraceIds \cup {None}, p \in Payloads \cup {NoValue}, mi \in 0..MaxIterArg :
                Agent_run(t, tr, p, mi)
        \/ RunStep(t, BasicMenu, {"dict"}, Usages)
UsageSpec == AgentInit /\ [][UsageNext]_vars

\* two requests in flight on the one module-level agent
ConcNext ==
    \E t \in Threads :
        \/ \E p \in Payloads : run_agent(t, "t1", p)
        \/ RunStep(t, BasicMenu, {"dict"}, PlainUsages)
ConcSpec == AgentInit /\ [][ConcNext]_vars

\* the statements of one request run one after another without waiting on
\* anything but generate and tool runs, which are assumed to return
FairSpec == Spec /\ WF_vars(\E t \in {1} : RunStep(t, FullMenu, ToolBehaviours, PlainUsages))

----------------------------------------------------------------------------
(* A BufferMemory on its own: any max_messages, any sequence of add calls *)

TestMessages ==
    {Message("user", "a", 0), Message("assistant", "b", 0),
     Message("assistant", "c", 0)}

MemAdd(m) ==
    /\ Len(added) < MaxAdds
    /\ memory' = BufferMemory_add(memory, m)
    /\ added' = Append(added, m)
    /\ UNCHANGED <<agent, th, nextRun, storeVars, extraction>>

MemInit ==
    /\ agent = [input_schema |-> NoSchema, output_schema |-> NoSchema]
    /\ \E k \in 0..MaxMaxMessages : memory = BufferMemory(k)
    /\ added = << >>
    /\ th = [t \in Threads |-> IdleFrame]
    /\ nextRun = 0
    /\ StoreIdle
    /\ extraction = NoExtraction

MemNext == \E m \in TestMessages : MemAdd(m)
MemorySpec == MemInit /\ [][MemNext]_vars

----------------------------------------------------------------------------
(* The application store (storage/memory.py) *)

\* ids: the seeded "app-1", "app-2"; uuid4 ids are numbered in order of issue
AppId(n) == "app-" \o ToString(n)
AgentId(n) == "agent-" \o ToString(n)

\* InMemoryStorage._seed_data: the sample apps (no agents, no orchestrations)
SeedApps ==
    (AppId(1) :> [status |-> "Deployed", agent_count |-> 4])
    @@ (AppId(2) :> [status |-> "Draft", agent_count |-> 3])

\* app ids and agent ids a request can name: all that can exist, and one that cannot
AllAppIds == {AppId(n) : n \in 1..(Cardinality(DOMAIN SeedApps) + MaxCreatedApps)} \cup {"app-x"}
\* the ids worth naming in a request: those stored, and one that is not
AppIds == DOMAIN apps \cup {"app-x"}
AgentIds == DOMAIN agents \cup {"agent-x"}

\* a request field that was not sent (model_dump(exclude_unset=True) omits it)
Unset == "<unset>"

\* an agent config that AgentConfigFull accepts
ValidConfig == "valid"

\* dict without key k
Without(f, k) == [x \in DOMAIN f \ {k} |-> f[x]]

InMemoryStorage_create_app(store_apps, app_id) ==
    store_apps @@ (app_id :> [status |-> "Draft", agent_count |-> 0])

\* update_app with data = {"status": status}: a None value is skipped
InMemoryStorage_update_app(store_apps, app_id, status) ==
    IF app_id \notin DOMAIN store_apps THEN store_apps
    ELSE IF status = None THEN store_apps
    ELSE [store_apps EXCEPT ![app_id].status = status]

InMemoryStorage_delete_app(store_apps, app_id) == Without(store_apps, app_id)

\* the agent_count side of create_agent and delete_agent
CountAgent(store_apps, app_id, d) ==
    IF app_id # None /\ app_id \in DOMAIN store_apps
    THEN [store_apps EXCEPT ![app_id].agent_count = @ + d]
    ELSE store_apps

InMemoryStorage_create_agent(store_agents, agent_id, app_id, config) ==
    store_agents @@ (agent_id :> [app_id |-> app_id, config |-> config])

\* update_agent with data = {"config": config}: a None value is skipped
InMemoryStorage_update_agent(store_agents, agent_id, config) ==
    IF agent_id \notin DOMAIN store_agents THEN store_agents
    ELSE IF config = None THEN store_agents
    ELSE [store_agents EXCEPT ![agent_id].config = config]

InMemoryStorage_delete_agent(store_agents, agent_id) == Without(store_agents, agent_id)

\* list_agents(app_id=app_id), as the set of their ids
InMemoryStorage_list_agents(app_id) ==
    {a \in DOMAIN agents : agents[a].app_id = app_id}

InMemoryStorage_save_orchestration(store_orchestrations, app_id, data) ==
    [x \in DOMAIN store_orchestrations \cup {app_id} |->
        IF x = app_id THEN data ELSE store_orchestrations[x]]

----------------------------------------------------------------------------
(* Orchestration graphs and their validation at deploy time (routers/apps.py) *)

Node(id, type, agent_id) == [id |-> id, type |-> type, agent_id |-> agent_id]
Edge(source, target) == [source |-> source, target |-> target]
Orchestration(nodes, edges, entry_node) ==
    [nodes |-> nodes, edges |-> edges, entry_node |-> entry_node]

\* `not x` for an optional str
Falsy(x) == x \in {None, ""}

NodeIds(nodes) == {nodes[i].id : i \in 1..Len(nodes)}

RECURSIVE EdgeErrors(_, _)
\* faulty variant: the target of an edge is looked at only when its source is listed
RECURSIVE EdgeErrors_elif(_, _)
EdgeErrors_elif(edges, node_ids) ==
    IF edges = << >> THEN << >>
    ELSE (IF Head(edges).source \notin node_ids
          THEN << <<"Edge source not found in nodes", Head(edges).source>> >>
          ELSE IF Head(edges).target \notin node_ids
          THEN << <<"Edge target not found in nodes", Head(edges).target>> >>
          ELSE << >>)
         \o EdgeErrors(Tail(edges), node_ids)

\* the errors of the loop over edges: per edge, its source, then its target
EdgeErrors(edges, node_ids) ==
    IF edges = << >> THEN << >>
    ELSE (IF Head(edges).source \notin node_ids
          THEN << <<"Edge source not found in nodes", Head(edges).source>> >> ELSE << >>)
         \o (IF Head(edges).target \notin node_ids
             THEN << <<"Edge target not found in nodes", Head(edges).target>> >> ELSE << >>)
         \o EdgeErrors(Tail(edges), node_ids)

\* has_cycle(node_id) with the closure's visited and rec_stack passed along;
\* HasCycleFrom is its loop over edges, from edge i on
RECURSIVE has_cycle(_, _, _, _)
RECURSIVE HasCycleFrom(_, _, _, _, _)
\* faulty variant: a node stays on the recursion stack when its search ends
RECURSIVE HasCycleFrom_noDiscard(_, _, _, _, _)
HasCycleFrom_noDiscard(edges, node_id, i, visited, rec_stack) ==
    IF i > Len(edges)
    THEN [cycle |-> FALSE, visited |-> visited, rec_stack |-> rec_stack]
    ELSE IF edges[i].source # node_id
    THEN HasCycleFrom_noDiscard(edges, node_id, i + 1, visited, rec_stack)
    ELSE IF edges[i].target \notin visited
    THEN LET r == has_cycle(edges, edges[i].target, visited, rec_stack)
         IN  IF r.cycle THEN r
             ELSE HasCycleFrom_noDiscard(edges, node_id, i + 1, r.visited, r.rec_stack)
    ELSE IF edges[i].target \in rec_stack
    THEN [cycle |-> TRUE, visited |-> visited, rec_stack |-> rec_stack]
    ELSE HasCycleFrom_noDiscard(edges, node_id, i + 1, visited, rec_stack)

\* the loop `for edge in edges` of has_cycle(node_id), from edge i on
HasCycleFrom(edges, node_id, i, visited, rec_stack) ==
    IF i > Len(edges)
    THEN [cycle |-> FALSE, visited |-> visited, rec_stack |-> rec_stack \ {node_id}]
    ELSE IF edges[i].source # node_id
    THEN HasCycleFrom(edges, node_id, i + 1, visited, rec_stack)
    ELSE IF edges[i].target \notin visited
    THEN LET r == has_cycle(edges, edges[i].target, visited, rec_stack)
         IN  IF r.cycle THEN r
             ELSE HasCycleFrom(edges, node_id, i + 1, r.visited, r.rec_stack)
    ELSE IF edges[i].target \in rec_stack
    THEN [cycle |-> TRUE, visited |-> visited, rec_stack |-> rec_stack]
    ELSE HasCycleFrom(edges, node_id, i + 1, visited, rec_stack)

has_cycle(edges, node_id, visited, rec_stack) ==
    HasCycleFrom(edges, node_id, 1, visited \cup {node_id}, rec_stack \cup {node_id})

\* faulty variant: the search starts at the first node only
CycleErrors_firstNodeOnly(nodes, edges, i, visited, rec_stack) ==
    IF i > Len(nodes) THEN << >>
    ELSE IF has_cycle(edges, nodes[i].id, visited, rec_stack).cycle
    THEN << <<"Circular dependency detected in orchestration graph">> >>
    ELSE << >>

\* the loop over nodes that starts has_cycle at each unvisited node, from node i on
RECURSIVE CycleErrors(_, _, _, _, _)
CycleErrors(nodes, edges, i, visited, rec_stack) ==
    IF i > Len(nodes) THEN << >>
    ELSE IF nodes[i].id \in visited
    THEN CycleErrors(nodes, edges, i + 1, visited, rec_stack)
    ELSE LET r == has_cycle(edges, nodes[i].id, visited, rec_stack)
         IN  IF r.cycle
             THEN << <<"Circular dependency detected in orchestration graph">> >>
             ELSE CycleErrors(nodes, edges, i + 1, r.visited, r.rec_stack)

\* the loop over nodes that resolves agent references
RECURSIVE AgentErrors(_, _)
AgentErrors(nodes, store_agents) ==
    IF nodes = << >> THEN << >>
    ELSE (IF Head(nodes).type = "agent" /\ ~Falsy(Head(nodes).agent_id)
             /\ Head(nodes).agent_id \notin DOMAIN store_agents
          THEN << <<"Agent referenced in node not found",
                    Head(nodes).agent_id, Head(nodes).id>> >>
          ELSE << >>)
         \o AgentErrors(Tail(nodes), store_agents)

\* the errors list _validate_orchestration builds for a stored orchestration
GraphErrors(orchestration, store_agents) ==
    LET nodes == orchestration.nodes
        edges == orchestration.edges
        entry_node == orchestration.entry_node
    IN  (IF nodes = << >> THEN << <<"Orchestration has no nodes">> >> ELSE << >>)
        \o (IF ~Falsy(entry_node) /\ entry_node \notin NodeIds(nodes)
            THEN << <<"Entry node not found in nodes", entry_node>> >> ELSE << >>)
        \o EdgeErrors(edges, NodeIds(nodes))
        \o CycleErrors(nodes, edges, 1, {}, {})
        \o AgentErrors(nodes, store_agents)

\* _validate_orchestration(app_id): the errors it raises with, << >> when it returns
_validate_orchestration(app_id) ==
    IF app_id \notin DOMAIN orchestrations
    THEN << <<"No orchestration configured">> >>
    ELSE GraphErrors(orchestrations[app_id], agents)

\* _validate_agent_configs(app_id) returns normally: every agent of the app
\* has a config, and AgentConfigFull accepts it
_validate_agent_configs(app_id) ==
    \A a \in InMemoryStorage_list_agents(app_id) :
        agents[a].config # None /\ agents[a].config = ValidConfig

\* faulty variant: a deployed application can be taken back to Draft
_ALLOWED_STATUS_TRANSITIONS_rollback ==
    [current \in {"Draft", "Deployed", "Archived"} |->
        CASE current = "Draft" -> {"Deployed", "Archived"}
          [] current = "Deployed" -> {"Archived", "Draft"}
          [] OTHER -> {}]

_ALLOWED_STATUS_TRANSITIONS ==
    [current \in {"Draft", "Deployed", "Archived"} |->
        CASE current = "Draft" -> {"Deployed", "Archived"}
          [] current = "Deployed" -> {"Archived"}
          [] OTHER -> {}]

\* _validate_status_transition returns normally (TRUE) or raises HTTP 400 (FALSE)
_validate_status_transition(current, new) ==
    IF new = current THEN TRUE
    ELSE new \in _ALLOWED_STATUS_TRANSITIONS[current]

----------------------------------------------------------------------------
(* The requests of the store's routers; a request that is refused changes nothing *)

\* one more request is served
Serve == served < MaxRequests /\ served' = served + 1

\* POST /apps/
create_app ==
    /\ Serve
    /\ issued.app < MaxCreatedApps
    /\ apps' = InMemoryStorage_create_app(apps,
                    AppId(Cardinality(DOMAIN SeedApps) + issued.app + 1))
    /\ issued' = [issued EXCEPT !.app = @ + 1]
    /\ UNCHANGED <<agents, orchestrations, validation, agentVars, extraction>>

\* PATCH /apps/{app_id} with status sent (a status, or null) or not sent
update_app(app_id, status) ==
    /\ Serve
    /\ apps' = IF app_id \notin DOMAIN apps THEN apps
               ELSE IF status = Unset THEN apps
               ELSE IF ~_validate_status_transition(apps[app_id].status, status) THEN apps
               ELSE InMemoryStorage_update_app(apps, app_id, status)
    /\ UNCHANGED <<agents, orchestrations, issued, validation, agentVars, extraction>>

\* DELETE /apps/{app_id}
delete_app(app_id) ==
    /\ Serve
    /\ apps' = InMemoryStorage_delete_app(apps, app_id)
    /\ UNCHANGED <<agents, orchestrations, issued, validation, agentVars, extraction>>

\* faulty variant: the status is written before the agents and the graph are looked at
deploy_app_statusFirst(app_id) ==
    /\ Serve
    /\ apps' = IF app_id \notin DOMAIN apps THEN apps
               ELSE IF apps[app_id].status # "Draft" THEN apps
               ELSE InMemoryStorage_update_app(apps, app_id, "Deployed")
    /\ UNCHANGED <<agents, orchestrations, issued, validation, agentVars, extraction>>

\* POST /apps/{app_id}/deploy
deploy_app(app_id) ==
    /\ Serve
    /\ apps' = IF app_id \notin DOMAIN apps THEN apps
               ELSE IF apps[app_id].status # "Draft" THEN apps
               ELSE IF ~_validate_agent_configs(app_id) THEN apps
               ELSE IF _validate_orchestration(app_id) # << >> THEN apps
               ELSE InMemoryStorage_update_app(apps, app_id, "Deployed")
    /\ UNCHANGED <<agents, orchestrations, issued, validation, agentVars, extraction>>

\* POST /apps/{app_id}/archive
archive_app(app_id) ==
    /\ Serve
    /\ apps' = IF app_id \notin DOMAIN apps THEN apps
               ELSE IF ~_validate_status_transition(apps[app_id].status, "Archived") THEN apps
               ELSE InMemoryStorage_update_app(apps, app_id, "Archived")
    /\ UNCHANGED <<agents, orchestrations, issued, validation, agentVars, extraction>>

\* POST /agents/: AgentCreate has no app_id
create_agent(config) ==
    /\ Serve
    /\ issued.agent < MaxCreatedAgents
    /\ agents' = InMemoryStorage_create_agent(agents, AgentId(issued.agent + 1), None, config)
    /\ issued' = [issued EXCEPT !.agent = @ + 1]
    /\ UNCHANGED <<apps, orchestrations, validation, agentVars, extraction>>

\* POST /apps/{app_id}/agents
add_agent_to_app(app_id, config) ==
    /\ Serve
    /\ issued.agent < MaxCreatedAgents
    /\ app_id \in DOMAIN apps
    /\ agents' = InMemoryStorage_create_agent(agents, AgentId(issued.agent + 1), app_id, config)
    /\ apps' = CountAgent(apps, app_id, 1)
    /\ issued' = [issued EXCEPT !.agent = @ + 1]
    /\ UNCHANGED <<orchestrations, validation, agentVars, extraction>>

\* POST /apps/{app_id}/agents/from-library/{library_agent_id}: a copy without config
add_library_agent_to_app(app_id) ==
    /\ Serve
    /\ issued.agent < MaxCreatedAgents
    /\ app_id \in DOMAIN apps
    /\ agents' = InMemoryStorage_create_agent(agents, AgentId(issued.agent + 1), app_id, None)
    /\ apps' = CountAgent(apps, app_id, 1)
    /\ issued' = [issued EXCEPT !.agent = @ + 1]
    /\ UNCHANGED <<orchestrations, validation, agentVars, extraction>>

\* PATCH /agents/{agent_id} with config sent or not
update_agent(agent_id, config) ==
    /\ Serve
    /\ agents' = IF config = Unset THEN agents
                 ELSE InMemoryStorage_update_agent(agents, agent_id, config)
    /\ UNCHANGED <<apps, orchestrations, issued, validation, agentVars, extraction>>

\* PUT /agents/{agent_id}/config
update_agent_config(agent_id) ==
    /\ Serve
    /\ agents' = InMemoryStorage_update_agent(agents, agent_id, ValidConfig)
    /\ UNCHANGED <<apps, orchestrations, issued, validation, agentVars, extraction>>

\* DELETE /agents/{agent_id}
delete_agent(agent_id) ==
    /\ Serve
    /\ agent_id \in DOMAIN agents
    /\ apps' = CountAgent(apps, agents[agent_id].app_id, -1)
    /\ agents' = InMemoryStorage_delete_agent(agents, agent_id)
    /\ UNCHANGED <<orchestrations, issued, validation, agentVars, extraction>>

\* PUT /orchestration/{app_id}
save_orchestration(app_id, config) ==
    /\ Serve
    /\ orchestrations' = IF app_id \notin DOMAIN apps THEN orchestrations
                         ELSE InMemoryStorage_save_orchestration(orchestrations, app_id, config)
    /\ UNCHANGED <<apps, agents, issued, validation, agentVars, extraction>>

\* the graphs a client saves
LinearGraph ==
    Orchestration(<< Node("n1", "agent", AgentId(1)), Node("n2", "conditional", None) >>,
                  << Edge("n1", "n2") >>, "n1")
SingleNodeGraph == Orchestration(<< Node("n1", "agent", None) >>, << >>, None)
CyclicGraph ==
    Orchestration(<< Node("n1", "agent", None), Node("n2", "agent", None) >>,
                  << Edge("n1", "n2"), Edge("n2", "n1") >>, "n1")
BrokenGraph == Orchestration(<< >>, << Edge("n1", "n2") >>, "n1")

SavedGraphs == {LinearGraph, SingleNodeGraph, CyclicGraph, BrokenGraph}

\* InMemoryStorage.__init__, and no agent run in progress
StoreInit ==
    /\ agent = [input_schema |-> NoSchema, output_schema |-> NoSchema]
    /\ memory = BufferMemory(DefaultMaxMessages)
    /\ added = << >>
    /\ th = [t \in Threads |-> IdleFrame]
    /\ nextRun = 0
    /\ apps = SeedApps
    /\ agents = << >>
    /\ orchestrations = << >>
    /\ issued = [app |-> 0, agent |-> 0]
    /\ served = 0
    /\ validation = NoValidation
    /\ extraction = NoExtraction

StoreNext ==
    \/ create_app
    \/ \E app_id \in AppIds, status \in {Unset, None, "Draft", "Deployed", "Archived"} :
            update_app(app_id, status)
    \/ \E app_id \in AppIds : delete_app(app_id)
    \/ \E app_id \in AppIds : deploy_app(app_id)
    \/ \E app_id \in AppIds : archive_app(app_id)
    \/ \E config \in {None, ValidConfig} : create_agent(config)
    \/ \E app_id \in AppIds, config \in {None, ValidConfig} : add_agent_to_app(app_id, config)
    \/ \E app_id \in AppIds : add_library_agent_to_app(app_id)
    \/ \E agent_id \in AgentIds, config \in {Unset, ValidConfig} : update_agent(agent_id, config)
    \/ \E agent_id \in AgentIds : update_agent_config(agent_id)
    \/ \E agent_id \in AgentIds : delete_agent(agent_id)
    \/ \E app_id \in AppIds, config \in SavedGraphs : save_orchestration(app_id, config)
StoreSpec == StoreInit /\ [][StoreNext]_vars

\* Stores that requests have built before a deploy is asked for: app-1 Deployed
\* or archived, app-2 Draft, deployed, archived or deleted, with or without an
\* agent of its own (with or without config) and a saved graph
DeployStores ==
    {[apps |-> a, agents |-> g, orchestrations |-> o] :
        a \in {[x \in d |-> [status |-> st[x], agent_count |-> SeedApps[x].agent_count]] :
                    d \in {{AppId(1), AppId(2)}, {AppId(1)}},
                    st \in [{AppId(1), AppId(2)} -> {"Draft", "Deployed", "Archived"}]},
        g \in {<< >>} \cup {InMemoryStorage_create_agent(<< >>, AgentId(1), AppId(2), config) :
                                config \in {None, ValidConfig}},
        o \in {<< >>} \cup {InMemoryStorage_save_orchestration(<< >>, AppId(2), config) :
                                config \in SavedGraphs}}

DeployInit ==
    /\ agent = [input_schema |-> NoSchema, output_schema |-> NoSchema]
    /\ memory = BufferMemory(DefaultMaxMessages)
    /\ added = << >>
    /\ th = [t \in Threads |-> IdleFrame]
    /\ nextRun = 0
    /\ \E store \in DeployStores :
            /\ AppId(1) \in DOMAIN store.apps => store.apps[AppId(1)].status # "Draft"
            /\ apps = (IF AppId(2) \in DOMAIN store.apps
                       THEN CountAgent(store.apps, AppId(2), Cardinality(DOMAIN store.agents))
                       ELSE store.apps)
            /\ agents = store.agents
            /\ orchestrations = store.orchestrations
            /\ issued = [app |-> 0, agent |-> Cardinality(DOMAIN store.agents)]
    /\ served = 0
    /\ validation = NoValidation
    /\ extraction = NoExtraction

\* deploy requests only
DeployNext == \E app_id \in AppIds : deploy_app(app_id)
DeploySpec == DeployInit /\ [][DeployNext]_vars

----------------------------------------------------------------------------
(* The validate endpoint (routers/orchestration.py) *)

Sources(edges) == {edges[i].source : i \in 1..Len(edges)}
Targets(edges) == {edges[i].target : i \in 1..Len(edges)}

\* the orders in which the elements of a Python set can come out of a for loop
SetOrders(S) ==
    {order \in [1..Cardinality(S) -> S] :
        \A i, j \in 1..Cardinality(S) : i # j => order[i] # order[j]}

\* the warnings of `for node_id in node_ids`, the set iterated in the given order
RECURSIVE ConnectionWarnings(_, _, _, _)
ConnectionWarnings(order, sources, targets, entry_node) ==
    IF order = << >> THEN << >>
    ELSE (IF Head(order) \notin sources /\ Head(order) \notin targets
             /\ Head(order) # entry_node
          THEN << <<"Node has no connections", Head(order)>> >> ELSE << >>)
         \o ConnectionWarnings(Tail(order), sources, targets, entry_node)

\* faulty variant: the deploy-time validator does not warn of a missing entry node
GraphWarnings_connectionsOnly(orchestration, order) ==
    ConnectionWarnings(order, Sources(orchestration.edges), Targets(orchestration.edges),
                       orchestration.entry_node)

\* the warnings list _validate_orchestration builds (apps.py lines 75-91), the
\* set node_ids iterated in the given order
GraphWarnings(orchestration, order) ==
    LET entry_node == orchestration.entry_node
        sources == Sources(orchestration.edges)
        targets == Targets(orchestration.edges)
    IN  (IF Falsy(entry_node) THEN << <<"No entry node specified">> >> ELSE << >>)
        \o ConnectionWarnings(order, sources, targets, entry_node)

\* _validate_orchestration(app_id): whether it raises OrchestrationError, and
\* the errors and warnings lists of the details it raises with
OrchestrationError(app_id, order) ==
    IF app_id \notin DOMAIN orchestrations
    THEN [raised |-> TRUE, errors |-> << <<"No orchestration configured">> >>,
          warnings |-> << >>]
    ELSE [raised |-> _validate_orchestration(app_id) # << >>,
          errors |-> _validate_orchestration(app_id),
          warnings |-> GraphWarnings(orchestrations[app_id], order)]

\* the warnings list validate_orchestration builds
ValidationWarnings(orchestration, order) ==
    (IF Falsy(orchestration.entry_node)
     THEN << <<"No entry node specified">> >> ELSE << >>)
    \o ConnectionWarnings(order, Sources(orchestration.edges), Targets(orchestration.edges),
                          orchestration.entry_node)

\* faulty variant: the rules after the first one that found errors are skipped
ValidationErrors_shortCircuit(orchestration, store_agents) ==
    LET nodes == orchestration.nodes
        edges == orchestration.edges
        entry_node == orchestration.entry_node
    IN  IF nodes = << >> THEN << <<"Orchestration has no nodes">> >>
        ELSE IF ~Falsy(entry_node) /\ entry_node \notin NodeIds(nodes)
        THEN << <<"Entry node not found in nodes", entry_node>> >>
        ELSE IF EdgeErrors(edges, NodeIds(nodes)) # << >>
        THEN EdgeErrors(edges, NodeIds(nodes))
        ELSE IF CycleErrors(nodes, edges, 1, {}, {}) # << >>
        THEN CycleErrors(nodes, edges, 1, {}, {})
        ELSE AgentErrors(nodes, store_agents)

\* the errors list validate_orchestration builds (lines 82-143)
ValidationErrors(orchestration, store_agents) ==
    LET nodes == orchestration.nodes
        edges == orchestration.edges
        entry_node == orchestration.entry_node
    IN  (IF nodes = << >> THEN << <<"Orchestration has no nodes">> >> ELSE << >>)
        \o (IF Falsy(entry_node) THEN << >>
            ELSE IF entry_node \notin NodeIds(nodes)
            THEN << <<"Entry node not found in nodes", entry_node>> >> ELSE << >>)
        \o EdgeErrors(edges, NodeIds(nodes))
        \o CycleErrors(nodes, edges, 1, {}, {})
        \o AgentErrors(nodes, store_agents)

\* faulty variant: a result with warnings is not valid
OrchestrationValidationResult_strict(errors, warnings) ==
    [NoValidation EXCEPT !.code = "200",
                         !.valid = Len(errors) = 0 /\ Len(warnings) = 0,
                         !.errors = errors, !.warnings = warnings]

\* OrchestrationValidationResult(valid=len(errors) == 0, errors=errors, warnings=warnings)
OrchestrationValidationResult(errors, warnings) ==
    [NoValidation EXCEPT !.code = "200", !.valid = Len(errors) = 0,
                         !.errors = errors, !.warnings = warnings]

\* HTTPException(status_code=404)
NotFound == [NoValidation EXCEPT !.code = "404"]

\* the answer of validate_orchestration, errors being the list the rules
\* build and the set node_ids being iterated in the given order
ValidationAnswer(app_id, errors, order) ==
    IF app_id \notin DOMAIN apps THEN NotFound
    ELSE IF app_id \notin DOMAIN orchestrations
    THEN [NoValidation EXCEPT !.code = "200", !.valid = FALSE,
                              !.errors = << <<"No orchestration configured">> >>]
    ELSE OrchestrationValidationResult(
            errors, ValidationWarnings(orchestrations[app_id], order))

\* POST /orchestration/{app_id}/validate; it reads the store and changes nothing,
\* and is not counted among the requests served
validate_orchestration(app_id) ==
    /\ LET errors == IF app_id \in DOMAIN orchestrations
                      THEN ValidationErrors(orchestrations[app_id], agents) ELSE << >>
       IN  validation' \in
                {[ValidationAnswer(app_id, errors, order) EXCEPT !.app_id = app_id, !.at = served] :
                    order \in SetOrders(IF app_id \in DOMAIN orchestrations
                                        THEN NodeIds(orchestrations[app_id].nodes) ELSE {})}
    /\ UNCHANGED <<apps, agents, orchestrations, issued, served, agentVars, extraction>>

----------------------------------------------------------------------------
(* The validator on its own: any stored graph over a few node ids *)

\* ids of the nodes a graph lists, and an id no graph lists
NodePool == {"a", "b", "c"}
UnlistedId == "x"

\* node lists: every order of every subset of the pool
NodeLists ==
    {[i \in DOMAIN order |-> Node(order[i], "agent", None)] :
        order \in UNION {SetOrders(S) : S \in SUBSET NodePool}}

\* edges: a 3-cycle, a 2-cycle, a self-loop, and edges with unlisted ends
EdgePool ==
    {Edge("a", "b"), Edge("b", "c"), Edge("c", "a"), Edge("b", "a"), Edge("a", "a"),
     Edge("a", UnlistedId), Edge(UnlistedId, "b"), Edge(UnlistedId, UnlistedId)}
\* edge lists: every sequence of up to MaxEdges edges of the pool
EdgeLists == UNION {[1..n -> EdgePool] : n \in 0..MaxEdges}

\* entry_node: absent, the empty str, or "a" (which a node list may or may not hold)
EntryNodes == {None, "", "a"}

Graphs ==
    {Orchestration(nodes, edges, entry_node) :
        nodes \in NodeLists, edges \in EdgeLists, entry_node \in EntryNodes}

\* the seeded store with a graph saved for app-2
GraphInit ==
    /\ agent = [input_schema |-> NoSchema, output_schema |-> NoSchema]
    /\ memory = BufferMemory(DefaultMaxMessages)
    /\ added = << >>
    /\ th = [t \in Threads |-> IdleFrame]
    /\ nextRun = 0
    /\ apps = SeedApps
    /\ agents = << >>
    /\ \E config \in Graphs :
            orchestrations = InMemoryStorage_save_orchestration(<< >>, AppId(2), config)
    /\ issued = [app |-> 0, agent |-> 0]
    /\ served = 0
    /\ validation = NoValidation
    /\ extraction = NoExtraction

GraphNext == \E app_id \in AppIds : validate_orchestration(app_id)
GraphSpec == GraphInit /\ [][GraphNext]_vars

\* graphs that can break every rule at once: no node, node a, or nodes a and b
\* in both orders, their agent_id null or an agent the store does not have;
\* edges between them and the unlisted id; entry_node absent, listed or unlisted
RuleNodeLists ==
    {<< >>}
    \cup {<< Node("a", "agent", g) >> : g \in {None, "agent-x"}}
    \cup {<< Node(ids[1], "agent", g[1]), Node(ids[2], "agent", g[2]) >> :
            ids \in {<<"a", "b">>, <<"b", "a">>},
            g \in {None, "agent-x"} \X {None, "agent-x"}}
RuleEdgePool ==
    {Edge("a", "b"), Edge("b", "a"), Edge("a", UnlistedId), Edge(UnlistedId, "a"),
     Edge(UnlistedId, UnlistedId)}
RuleGraphs ==
    {Orchestration(nodes, edges, entry_node) :
        nodes \in RuleNodeLists,
        edges \in UNION {[1..n -> RuleEdgePool] : n \in 0..MaxEdges},
        entry_node \in {None, "a", UnlistedId}}

\* the seeded store with such a graph saved for app-2
RuleInit ==
    /\ agent = [input_schema |-> NoSchema, output_schema |-> NoSchema]
    /\ memory = BufferMemory(DefaultMaxMessages)
    /\ added = << >>
    /\ th = [t \in Threads |-> IdleFrame]
    /\ nextRun = 0
    /\ apps = SeedApps
    /\ agents = << >>
    /\ \E config \in RuleGraphs :
            orchestrations = InMemoryStorage_save_orchestration(<< >>, AppId(2), config)
    /\ issued = [app |-> 0, agent |-> 0]
    /\ served = 0
    /\ validation = NoValidation
    /\ extraction = NoExtraction
RuleSpec == RuleInit /\ [][GraphNext]_vars

\* the seeded store with one of those graphs of fewer than MaxEdges edges
\* saved for app-2
EquivInit ==
    /\ agent = [input_schema |-> NoSchema, output_schema |-> NoSchema]
    /\ memory = BufferMemory(DefaultMaxMessages)
    /\ added = << >>
    /\ th = [t \in Threads |-> IdleFrame]
    /\ nextRun = 0
    /\ apps = SeedApps
    /\ agents = << >>
    /\ \E config \in {g \in RuleGraphs : Len(g.edges) < MaxEdges} :
            orchestrations = InMemoryStorage_save_orchestration(<< >>, AppId(2), config)
    /\ issued = [app |-> 0, agent |-> 0]
    /\ served = 0
    /\ validation = NoValidation
    /\ extraction = NoExtraction

\* the stored graph is validated by the endpoint and at deploy time
EquivNext == validate_orchestration(AppId(2)) \/ deploy_app(AppId(2))
EquivSpec == EquivInit /\ [][EquivNext]_vars

\* graphs over four nodes in every order: the edges of the diamond a->b, a->c,
\* b->d, c->d in every sequence of up to MaxDagEdges edges, duplicates included
DagNodeLists ==
    {[i \in DOMAIN order |-> Node(order[i], "agent", None)] :
        order \in SetOrders({"a", "b", "c", "d"})}
DagEdgePool ==
    {Edge("a", "b"), Edge("a", "c"), Edge("b", "d"), Edge("c", "d")}
DagGraphs ==
    {Orchestration(nodes, edges, "a") :
        nodes \in DagNodeLists,
        edges \in UNION {[1..n -> DagEdgePool] : n \in 0..MaxDagEdges}}

\* the seeded store with such a graph saved for app-2
DagInit ==
    /\ agent = [input_schema |-> NoSchema, output_schema |-> NoSchema]
    /\ memory = BufferMemory(DefaultMaxMessages)
    /\ added = << >>
    /\ th = [t \in Threads |-> IdleFrame]
    /\ nextRun = 0
    /\ apps = SeedApps
    /\ agents = << >>
    /\ \E config \in DagGraphs :
            orchestrations = InMemoryStorage_save_orchestration(<< >>, AppId(2), config)
    /\ issued = [app |-> 0, agent |-> 0]
    /\ served = 0
    /\ validation = NoValidation
    /\ extraction = NoExtraction
\* the stored graph is validated
DagNext == validate_orchestration(AppId(2))
DagSpec == DagInit /\ [][DagNext]_vars

----------------------------------------------------------------------------
(* The extractor on its own: _parse_json_output on serialized values and on
   fenced texts *)

\* the characters of the strings enumerated
StringAlphabet == {"a", "\"", "\\", "\n", "[", "]"}
RECURSIVE StringsOfLen(_)
StringsOfLen(n) ==
    IF n = 0 THEN {""} ELSE {s \o c : s \in StringsOfLen(n - 1), c \in StringAlphabet}
Strings == UNION {StringsOfLen(n) : n \in 0..MaxStringLen}

IntPool == {-120, -7, 0, 7, 10, 42}

\* the values held by the containers enumerated
ItemPool ==
    {JNull, JBool(TRUE), JInt(42), JInt(-7), JStr("a"), JStr("\"]"),
     JArr(<< >>), JObj(<< >>), JArr(<< JInt(1), JStr("\n") >>),
     JObj(<< <<"k", JArr(<< JBool(FALSE) >>)>> >>)}
MemberPool == {JNull, JInt(42), JStr("a\\"), JArr(<< JInt(1) >>), JObj(<< <<"", JNull>> >>)}
KeyPool == {"a", "", "k\"", "["}

\* the sequences of length n over S
SeqsOfLen(S, n) == [1..n -> S]
\* the dicts of n items: distinct keys, in every insertion order
DictsOfLen(n) ==
    {[i \in 1..n |-> <<ks[i], vs[i]>>] :
        ks \in {k \in SeqsOfLen(KeyPool, n) : \A i, j \in 1..n : k[i] = k[j] => i = j},
        vs \in SeqsOfLen(MemberPool, n)}

\* JSON-serializable values: None, booleans, ints, strs, lists, dicts
JsonValues ==
    {JNull, JBool(TRUE), JBool(FALSE)}
    \cup {JInt(n) : n \in IntPool}
    \cup {JStr(s) : s \in Strings}
    \cup {JArr(items) : items \in UNION {SeqsOfLen(ItemPool, n) : n \in 0..MaxItems}}
    \cup {JObj(members) : members \in UNION {DictsOfLen(n) : n \in 0..MaxItems}}

\* the JSON documents put between fences, each with the value it denotes
FencedDocuments ==
    {<<"{\"value\":42}", JObj(<< <<"value", JInt(42)>> >>)>>,
     <<"{\n  \"value\": 42\n}", JObj(<< <<"value", JInt(42)>> >>)>>,
     <<"[1, 2]", JArr(<< JInt(1), JInt(2) >>)>>,
     <<"{}", JObj(<< >>)>>,
     <<"42", JInt(42)>>,
     <<"\"s\"", JStr("s")>>,
     <<"null", JNull>>}

\* prose before the fence (ending its line) and after it (on lines of its own)
ProseBefore ==
    {"", "Here it is:\n", "Sure.\n\n", "see [1] below\n", "use {x} as id\n",
     "the empty case {} first\n", "a [ b\n"}
ProseAfter ==
    {"", "\n", "\nDone.", "\n[done]", "\nor {\"other\": 1}", "\nNote: {y}\n"}
FenceTags == {"", "json"}

\* a text with exactly one fenced block
FencedText(before, tag, document, after) ==
    before \o Fence \o tag \o "\n" \o document \o "\n" \o Fence \o after

ExtractInit ==
    /\ agent = [input_schema |-> NoSchema, output_schema |-> NoSchema]
    /\ memory = BufferMemory(DefaultMaxMessages)
    /\ added = << >>
    /\ th = [t \in Threads |-> IdleFrame]
    /\ nextRun = 0
    /\ StoreIdle
    /\ \/ \E v \in JsonValues :
            extraction = [NoExtraction EXCEPT !.pc = "value", !.value = v]
       \/ \E before \in ProseBefore, tag \in FenceTags, d \in FencedDocuments,
             after \in ProseAfter :
            extraction = [NoExtraction EXCEPT !.pc = "text", !.inside = d[2],
                                              !.text = FencedText(before, tag, d[1], after)]

\* text = json.dumps(value)
Serialize ==
    /\ extraction.pc = "value"
    /\ extraction' = [extraction EXCEPT !.pc = "text", !.text = json_dumps(extraction.value)]
    /\ UNCHANGED <<agentVars, storeVars>>

\* _parse_json_output(text), its return value or its ValueError
ParseText ==
    /\ extraction.pc = "text"
    /\ extraction' = [extraction EXCEPT !.pc = "parsed",
                                        !.parsed = _parse_json_output(extraction.text)]
    /\ UNCHANGED <<agentVars, storeVars>>

ExtractNext == Serialize \/ ParseText
ExtractSpec == ExtractInit /\ [][ExtractNext]_vars

----------------------------------------------------------------------------
(* Agent references of a stored graph, while agents come and go *)

NodeTypes == {"agent", "conditional"}
\* agent_id of a node: null, empty, the agent the store creates first, one it never has
NodeAgentIds == {None, "", AgentId(1), "agent-x"}

\* one node a, or nodes a and b, of every type and agent_id; no edges, no entry node
AgentGraphs ==
    {Orchestration(<< Node("a", t, g) >>, << >>, None) : t \in NodeTypes, g \in NodeAgentIds}
    \cup {Orchestration(<< Node("a", t[1], g[1]), Node("b", t[2], g[2]) >>, << >>, None) :
                t \in NodeTypes \X NodeTypes, g \in NodeAgentIds \X NodeAgentIds}

AgentRefInit ==
    /\ agent = [input_schema |-> NoSchema, output_schema |-> NoSchema]
    /\ memory = BufferMemory(DefaultMaxMessages)
    /\ added = << >>
    /\ th = [t \in Threads |-> IdleFrame]
    /\ nextRun = 0
    /\ apps = SeedApps
    /\ agents = << >>
    /\ \E config \in AgentGraphs :
            orchestrations = InMemoryStorage_save_orchestration(<< >>, AppId(2), config)
    /\ issued = [app |-> 0, agent |-> 0]
    /\ served = 0
    /\ validation = NoValidation
    /\ extraction = NoExtraction

AgentRefNext ==
    \/ \E config \in {None, ValidConfig} : create_agent(config)
    \/ \E app_id \in AppIds, config \in {None, ValidConfig} : add_agent_to_app(app_id, config)
    \/ \E agent_id \in AgentIds : delete_agent(agent_id)
    \/ \E app_id \in AppIds : validate_orchestration(app_id)
AgentRefSpec == AgentRefInit /\ [][AgentRefNext]_vars

----------------------------------------------------------------------------
(* Properties of the agent execution core *)

Frames == {th[t] : t \in Threads}
Ended(f) == f.pc \in {"returned", "raised", "done"}
Started(f) == f.pc # "idle"
MaxIterationsError(f) == f.outcome.status = "error" /\ f.outcome.exc_msg = "Max iterations reached"

\* a run makes at most max_iterations generate calls; a response without tool
\* calls is the last one of its run; a success result comes at the first such
\* response; the max-iterations error comes exactly after max_iterations
\* completed tool-calling rounds
C1_Bounded ==
    \A f \in Frames :
        /\ f.gen_calls <= f.max_iterations
        /\ f.mem_adds = 1 =>
                /\ f.tool_responses = f.gen_calls - 1
                /\ f.pc \in {"extract", "returned", "raised", "done"}
        /\ f.outcome.status = "success" =>
                f.mem_adds = 1 /\ f.gen_calls >= 1 /\ f.tool_responses = f.gen_calls - 1
        /\ MaxIterationsError(f) =>
                f.gen_calls = f.max_iterations /\ f.tool_responses = f.max_iterations
        /\ (f.rendered /\ Ended(f) /\ f.iteration = f.max_iterations) =>
                MaxIterationsError(f)

\* C1 (as claimed): a run whose generate calls and tool calls all returned ends
\* in one of two ways only, a success result or the max-iterations error.
C1_SuccessOrMaxIterations ==
    \A f \in Frames :
        (Ended(f) /\ f.rendered /\ ~f.llm_raised /\ f.outcome.exc_msg # "tool call failed") =>
            (f.outcome.status = "success" \/ MaxIterationsError(f))

\* C1 (amended): for every max_iterations >= 0 and every sequence of model
\* responses, Agent.run makes at most max_iterations generate calls; the first
\* response without tool calls is the last, and the run then returns a success
\* result or fails on its output; the run fails with "Max iterations reached"
\* exactly when max_iterations responses carried tool calls that were all
\* executed; and every run that was started ends.
C1_TerminatesWithinMaxIterations ==
    /\ []C1_Bounded
    /\ \A t \in Threads : (th[t].pc \notin {"idle", "done"}) ~> (th[t].pc = "done")

C1_Witness ==
    \E f \in Frames :
        /\ f.pc = "done" /\ MaxIterationsError(f)
        /\ f.max_iterations = DefaultMaxIterations /\ f.gen_calls = DefaultMaxIterations

\* C2: Memory never holds a message of role tool nor an assistant message
\* carrying tool_calls, whatever number of tool-calling rounds a run had.
C2_NoToolExchangeInMemory ==
    \A i \in 1..Len(memory.messages) :
        /\ memory.messages[i].role # "tool"
        /\ memory.messages[i].tool_calls = << >>

C2_Witness ==
    \E f \in Frames :
        /\ f.pc = "done" /\ f.tool_responses >= 2 /\ f.tools_run >= 2
        /\ f.outcome.status = "success"
        /\ Len(memory.messages) = 1

\* C3 (as claimed): a BufferMemory built with any max_messages >= 0 holds at most
\* max_messages entries after each add, and once more than max_messages were
\* added it holds exactly the last max_messages of them, in order.
C3_BoundedMemory ==
    /\ Len(BufferMemory_get(memory)) <= memory.max_messages
    /\ Len(added) > memory.max_messages =>
            BufferMemory_get(memory) =
                SubSeq(added, Len(added) - memory.max_messages + 1, Len(added))

\* C4: with runs served one after another, the Memory is empty when a run
\* builds its message list, and no message of a run's list was produced by an
\* earlier run.
C4_NoCarryOver ==
    \A f \in Frames :
        /\ f.pc = "build" => BufferMemory_get(memory) = << >>
        /\ \A i \in 1..Len(f.messages) : f.messages[i].run = f.run

C4_Witness ==
    \E f \in Frames :
        /\ f.run = 2 /\ f.cleared >= 1
        /\ f.pc = "generate" /\ f.gen_calls = 1

\* C5 (as claimed): with two requests in flight, the messages a run sends to the
\* model hold no assistant message added by the other run.
C5_RunsIsolated ==
    \A f \in Frames :
        \A i \in 1..Len(f.messages) :
            f.messages[i].role = "assistant" => f.messages[i].run = f.run

\* C6: every /run request ends with a response {trace_id, status, result,
\* metrics}; when Agent.run raised, its status is error, its result is
\* {error: text}, its metrics are {tokens: 0, latency_ms}, and nothing
\* propagates out of the handler.
C6_HandlerAlwaysAnswers ==
    \A f \in Frames :
        (f.pc = "done" /\ f.via = "handler") =>
            /\ f.http.kind = "response"
            /\ f.http.metrics.latency_ms = "int"
            /\ f.outcome.status = "error" =>
                /\ f.http.status = "error"
                /\ f.http.trace_id = f.trace_id
                /\ f.http.result = [key |-> "error", v |-> f.outcome.exc_msg]
                /\ f.http.metrics.tokens = 0
            /\ f.outcome.status = "success" =>
                /\ f.http.status = "success"
                /\ f.http.result = [key |-> "value", v |-> f.outcome.result]

C6_Witness ==
    \E f \in Frames :
        /\ f.pc = "done" /\ f.via = "handler"
        /\ MaxIterationsError(f)
        /\ f.http.status = "error"

\* C7 (as claimed): no tool-call fault ends a run; every tool call yields a
\* text result and the run goes on.
C7_NoToolFaultEndsRun ==
    \A f \in Frames : ~(f.outcome.status = "error" /\ f.outcome.exc_msg = "tool call failed")

PastInputValidation(f) == f.pc \notin {"idle", "clear", "validate_input"}

\* C8: a run fails with the input validation error exactly when input_schema
\* is set and input_data (an absent one taken as {}) does not conform; then
\* nothing was rendered, generated, executed or added to Memory.
C8_InputValidation ==
    \A f \in Frames :
        /\ Started(f) => f.input_data # NoValue
        /\ PastInputValidation(f) =>
            ((f.outcome.exc_msg = "Invalid input") <=>
                (agent.input_schema.present /\ ~Conforms(agent.input_schema, f.input_data)))
        /\ f.outcome.exc_msg = "Invalid input" =>
            /\ f.outcome.status = "error"
            /\ ~f.rendered /\ f.gen_calls = 0 /\ f.tools_run = 0 /\ f.mem_adds = 0
            /\ BufferMemory_get(memory) = << >>

C8_Witness ==
    \E f \in Frames : f.pc = "done" /\ f.outcome.exc_msg = "Invalid input"

\* the text, fences and surrounding whitespace aside, is a JSON document or
\* holds a JSON object or array
HoldsJson(text) == text \in {TextJson, TextFenced, TextWrongType, TextProse}
\* the JSON value the text holds
JsonIn(text) ==
    IF text = TextWrongType THEN JObj(<< <<"value", JStr("x")>> >>)
    ELSE JObj(<< <<"value", JInt(42)>> >>)

ParseFailures == {"Invalid output: empty response", "Invalid output: could not parse JSON"}

C9_FailuresEndRun ==
    \A f \in Frames :
        /\ f.llm_raised =>
            /\ f.pc \in {"raised", "done"}
            /\ f.outcome.status = "error" /\ f.outcome.exc_type = "APIError"
        /\ (Ended(f) /\ f.mem_adds = 1) =>
            IF ~HoldsJson(f.final_text)
            THEN f.outcome.status = "error" /\ f.outcome.exc_msg \in ParseFailures
            ELSE IF agent.output_schema.present
                    /\ ~Conforms(agent.output_schema, JsonIn(f.final_text))
            THEN f.outcome.status = "error" /\ f.outcome.exc_msg = "Invalid output"
            ELSE f.outcome.status = "success" /\ f.outcome.result = JsonIn(f.final_text)

C9_NothingAfterFailure ==
    \A t \in Threads :
        th[t].pc = "raised" =>
            /\ th'[t].pc \in {"raised", "done"}
            /\ th'[t].gen_calls = th[t].gen_calls
            /\ th'[t].tools_run = th[t].tools_run
            /\ th'[t].outcome = th[t].outcome

\* C9: a model-client failure, an output parse failure and an output-schema
\* failure end the run in error at the step where they occur: no success
\* result, no further generate call, no further tool execution.
C9_FailuresNotSwallowed == []C9_FailuresEndRun /\ [][C9_NothingAfterFailure]_vars

C9_Witness ==
    \E f \in Frames :
        /\ f.pc = "done" /\ f.gen_calls = 2 /\ f.tools_run = 1
        /\ f.final_text = TextHello
        /\ f.outcome.exc_msg = "Invalid output: could not parse JSON"

----------------------------------------------------------------------------
(* Properties of the application store *)

\* the stored orchestration of the app passes validation with no errors
PassesValidation(app_id) == _validate_orchestration(app_id) = << >>

DeployedFromDraft(app_id) ==
    /\ app_id \in DOMAIN apps /\ app_id \in DOMAIN apps'
    /\ apps[app_id].status = "Draft" /\ apps'[app_id].status = "Deployed"

\* C10 (as claimed): an Application changes status from Draft to Deployed only
\* in a step in which its stored orchestration graph passes validation with an
\* empty error list, whichever operation sets the status (POST /{app_id}/deploy
\* or PATCH /{app_id} with a status field).
C10_DeployedOnlyWithValidGraph ==
    [][\A app_id \in AllAppIds : DeployedFromDraft(app_id) => PassesValidation(app_id)]_vars

----------------------------------------------------------------------------
(* Properties of the orchestration validator *)

\* the validate endpoint answered for a stored graph and the store has not
\* changed since
FreshValidation ==
    /\ validation.code = "200"
    /\ validation.at = served
    /\ validation.app_id \in DOMAIN orchestrations

ValidatedGraph == orchestrations[validation.app_id]

\* number of times x occurs in seq
Count(seq, x) == Cardinality({i \in 1..Len(seq) : seq[i] = x})

\* the pairs <<source, target>> of the edges between listed nodes
ListedEdges(graph) ==
    {<<graph.edges[i].source, graph.edges[i].target>> : i \in 1..Len(graph.edges)}
        \cap (NodeIds(graph.nodes) \X NodeIds(graph.nodes))

\* pairs joined by a path of up to n + 1 edges of E
RECURSIVE PathsUpTo(_, _)
PathsUpTo(E, n) ==
    IF n = 0 THEN E
    ELSE LET P == PathsUpTo(E, n - 1)
         IN  P \cup {<<q[1][1], q[2][2]>> : q \in {r \in P \X E : r[1][2] = r[2][1]}}

\* the edges form a directed cycle through listed nodes
HasListedCycle(graph) ==
    \E n \in NodeIds(graph.nodes) :
        <<n, n>> \in PathsUpTo(ListedEdges(graph), Cardinality(NodeIds(graph.nodes)))

CircularError == <<"Circular dependency detected in orchestration graph">>

\* C11: for every graph whose edges form a directed cycle through listed nodes
\* (self-loop, 2-cycle, 3-cycle), in every order of the nodes and edges lists,
\* validation answers valid=false and errors holds the circular-dependency
\* error exactly once.
C11_CycleReportedOnce ==
    (FreshValidation /\ HasListedCycle(ValidatedGraph)) =>
        /\ ~validation.valid
        /\ Count(validation.errors, CircularError) = 1

\* a 3-cycle with entry_node a, found with its edges and nodes out of order
C11_Witness ==
    /\ FreshValidation
    /\ ValidatedGraph.entry_node = "a"
    /\ ValidatedGraph.edges = << Edge("c", "a"), Edge("b", "c"), Edge("a", "b") >>
    /\ Len(ValidatedGraph.nodes) = Cardinality(NodePool)
    /\ ValidatedGraph.nodes[1].id = "b"
    /\ validation.errors = << CircularError >>

\* C12: in every validation result valid is true exactly when errors is empty,
\* whatever the warnings are.
C12_ValidIffNoErrors ==
    validation.code = "200" => (validation.valid <=> validation.errors = << >>)

C12_Witness ==
    /\ FreshValidation
    /\ validation.valid
    /\ Len(validation.warnings) >= 2

\* the ids a graph names: in its nodes, edges and entry_node
NamedIds(graph) ==
    NodeIds(graph.nodes) \cup Sources(graph.edges) \cup Targets(graph.edges)

\* C13: for every edge whose source or target is not the id of a listed node,
\* errors holds an error citing that id, one per offending endpoint (two for an
\* edge with both ends unknown), and valid is false.
C13_DanglingEdgeEnds ==
    FreshValidation =>
        LET graph == ValidatedGraph
            unlisted == NamedIds(graph) \ NodeIds(graph.nodes)
        IN  /\ \A id \in NamedIds(graph) :
                /\ Count(validation.errors, <<"Edge source not found in nodes", id>>) =
                        Cardinality({i \in 1..Len(graph.edges) :
                            graph.edges[i].source = id /\ id \in unlisted})
                /\ Count(validation.errors, <<"Edge target not found in nodes", id>>) =
                        Cardinality({i \in 1..Len(graph.edges) :
                            graph.edges[i].target = id /\ id \in unlisted})
            /\ unlisted # {} => ~validation.valid

\* an edge with both ends unknown, one with an unknown source only
C13_Witness ==
    /\ FreshValidation
    /\ ValidatedGraph.edges = << Edge(UnlistedId, UnlistedId), Edge(UnlistedId, "b") >>
    /\ "b" \in NodeIds(ValidatedGraph.nodes)
    /\ Len(validation.errors) = 3

\* C14 (as claimed): an unset (null) entry_node gives the warning "No entry node
\* specified" and no error, and a graph with nodes, no dangling edge, no cycle
\* and resolvable agents is then valid; an entry_node that is set but is not the
\* id of a listed node gives an error and valid=false.
C14_EntryNode ==
    FreshValidation =>
        LET graph == ValidatedGraph
            entry_errors == {i \in 1..Len(validation.errors) :
                                validation.errors[i][1] = "Entry node not found in nodes"}
        IN  IF graph.entry_node = None
            THEN /\ Count(validation.warnings, <<"No entry node specified">>) = 1
                 /\ entry_errors = {}
                 /\ (/\ graph.nodes # << >>
                     /\ NamedIds(graph) = NodeIds(graph.nodes)
                     /\ ~HasListedCycle(graph)
                     /\ AgentErrors(graph.nodes, agents) = << >>) => validation.valid
            ELSE IF graph.entry_node \notin NodeIds(graph.nodes)
            THEN /\ <<"Entry node not found in nodes", graph.entry_node>>
                        \in {validation.errors[i] : i \in entry_errors}
                 /\ ~validation.valid
            ELSE TRUE

\* the errors of an answer that report an agent reference
AgentReferenceErrors ==
    {validation.errors[i] : i \in {j \in 1..Len(validation.errors) :
        validation.errors[j][1] = "Agent referenced in node not found"}}

\* C15 (as claimed): after any sequence of agent creations and deletions, the
\* answer holds an error naming the agent id and the node id of a node exactly
\* when the node has type 'agent', a non-null agent_id, and no Agent record of
\* that id exists at validation time; agent nodes with a null agent_id and
\* nodes of other types never produce this error.
C15_AgentReferences ==
    FreshValidation =>
        LET nodes == ValidatedGraph.nodes
            unresolved == {i \in 1..Len(nodes) :
                            /\ nodes[i].type = "agent"
                            /\ nodes[i].agent_id # None
                            /\ nodes[i].agent_id \notin DOMAIN agents}
        IN  AgentReferenceErrors =
                {<<"Agent referenced in node not found", nodes[i].agent_id, nodes[i].id>> :
                    i \in unresolved}

----------------------------------------------------------------------------
(* Properties of the agent execution core: scenarios *)

\* C16: extraction runs on every final answer, whether or not output_schema is
\* set: a run whose final answer is the plain text hello (in particular with
\* input {}, no tool used and no schemas) fails with the output parse error and
\* returns no success result.
C16_ExtractionAlways ==
    \A f \in Frames :
        (Ended(f) /\ f.mem_adds = 1 /\ f.final_text = TextHello) =>
            /\ f.outcome.status = "error"
            /\ f.outcome.exc_type = "ValueError"
            /\ f.outcome.exc_msg = "Invalid output: could not parse JSON"
            /\ f.pc = "done" /\ f.via = "handler" => f.http.status = "error"

\* the scenario: no schemas, input {}, the first response is hello
C16_Witness ==
    \E f \in Frames :
        /\ agent.output_schema = NoSchema /\ agent.input_schema = NoSchema
        /\ f.pc = "done" /\ f.input_data = JObj(<< >>)
        /\ f.gen_calls = 1 /\ f.tools_run = 0
        /\ f.final_text = TextHello
        /\ f.outcome.status = "error"

\* the run of the tool scenario: output_schema requires an integer value, the
\* only tool exchange of the run is one call of lookup with {"id":"x"} answered
\* by {"value": 42}, and the final answer is the fenced JSON {"value":42}
ToolScenario(f) ==
    LET k == Len(f.messages)
    IN  /\ agent.output_schema = OutputSchema
        /\ f.pc \in {"returned", "raised"}
        /\ f.final_text = TextFenced /\ f.mem_adds = 1
        /\ k >= 2
        /\ Cardinality({i \in 1..k : f.messages[i].role = "tool"}) = 1
        /\ f.messages[k].role = "tool"
        /\ f.messages[k].name = "lookup"
        /\ f.messages[k].content = "{\"value\": 42}"
        /\ f.messages[k - 1].role = "assistant"
        /\ Len(f.messages[k - 1].tool_calls) = 1
        /\ f.messages[k - 1].tool_calls[1].name = "lookup"
        /\ f.messages[k - 1].tool_calls[1].arguments = ArgsObject

\* success with result {"value": 42}, and Memory holds the final assistant
\* message and nothing else
ToolScenarioSucceeds(f) ==
    /\ f.pc = "returned"
    /\ f.outcome.status = "success"
    /\ f.outcome.result = JObj(<< <<"value", JInt(42)>> >>)
    /\ memory.messages = << Message("assistant", TextFenced, f.run) >>

\* C17 (as claimed): in the tool scenario the run succeeds with result
\* {"value": 42}, the iteration count is 2, and Memory holds exactly one
\* assistant message, the final one.
C17_ToolScenarioIterationTwo ==
    \A f \in Frames :
        ToolScenario(f) => (ToolScenarioSucceeds(f) /\ f.iteration = 2)

\* C17 (amended): in the tool scenario the run succeeds with result
\* {"value": 42} at its second generate call, the iteration counter, which
\* counts the completed tool rounds, is 1, and Memory holds exactly one
\* assistant message, the final one.
C17_ToolScenario ==
    \A f \in Frames :
        ToolScenario(f) => (ToolScenarioSucceeds(f) /\ f.gen_calls = 2 /\ f.iteration = 1)

C17_Witness ==
    \E f \in Frames : ToolScenario(f) /\ ToolScenarioSucceeds(f) /\ f.tools_run = 1

----------------------------------------------------------------------------
(* Properties of the extractor *)

\* C18: for every JSON-serializable value v (dict, list, str, int, boolean,
\* None), _parse_json_output applied to json.dumps(v) returns v.
C18_RoundTrip ==
    (extraction.pc = "parsed" /\ extraction.value # NoValue) =>
        /\ extraction.parsed.ok
        /\ extraction.parsed.value = extraction.value

\* a dict whose key and str value hold quotes and brackets, through the round trip
C18_Witness ==
    /\ extraction.pc = "parsed"
    /\ extraction.value = JObj(<< <<"k\"", JStr("a\\")>>, <<"[", JArr(<< JInt(1) >>)>> >>)
    /\ extraction.text = "{\"k\\\"\": \"a\\\\\", \"[\": [1]}"
    /\ extraction.parsed = Parsed(extraction.value)

\* C19 (as claimed): for every text that holds exactly one fenced JSON block,
\* with or without prose before and after it (prose that may hold '{', '[' or
\* a small JSON-looking fragment), _parse_json_output returns the value
\* written inside the fence.
C19_FencedValue ==
    (extraction.pc = "parsed" /\ extraction.inside # NoValue) =>
        /\ extraction.parsed.ok
        /\ extraction.parsed.value = extraction.inside

----------------------------------------------------------------------------
(* Properties of the message list *)

IsPrefix(a, b) == Len(a) <= Len(b) /\ SubSeq(b, 1, Len(a)) = a

\* a message of the live exchange of run r: an assistant message carrying tool
\* calls, or a tool message
LiveMessage(m, r) ==
    /\ m.run = r
    /\ \/ m.role = "assistant" /\ m.tool_calls # << >>
       \/ m.role = "tool"
\* a message replayed from Memory: a final answer of an earlier run
ReplayedMessage(m, r) == m.run < r /\ m.role = "assistant" /\ m.tool_calls = << >>

\* the list is: the schema instruction when schema_set, the rendered prompt
\* messages in template order, replayed Memory messages, the live exchange
OrderedMessages(f, schema_set) ==
    LET k == IF schema_set THEN 1 ELSE 0
        n == k + Len(PromptTemplates)
        messages == f.messages
    IN  /\ Len(messages) >= n
        /\ schema_set =>
                messages[1] = build_schema_system_prompt(agent.output_schema, f.run)
        /\ \A i \in 1..Len(PromptTemplates) :
                /\ messages[k + i].role = PromptTemplates[i].role
                /\ messages[k + i].content =
                        RenderTemplate(PromptTemplates[i].template, f.input_data)
        /\ \E m \in n..Len(messages) :
                /\ \A i \in (n + 1)..m : ReplayedMessage(messages[i], f.run)
                /\ \A i \in (m + 1)..Len(messages) : LiveMessage(messages[i], f.run)

\* every list passed to generate is ordered, the schema instruction being
\* there exactly when output_schema is set
MessageOrder ==
    \A f \in Frames :
        f.pc = "generate" => OrderedMessages(f, agent.output_schema.present)

\* within a run the list only grows at its end
MessagesGrow ==
    \A t \in Threads :
        (th[t].pc \in {"generate", "tool"} /\ th'[t].pc \in {"generate", "tool"}
            /\ th'[t].run = th[t].run) =>
                IsPrefix(th[t].messages, th'[t].messages)

\* C20 (as claimed): in every message list passed to llm.generate the
\* output-schema instruction (present exactly when output_schema is set) comes
\* first, then the rendered prompt messages in template order, then the
\* replayed Memory messages, then the live exchange; a later generate call of
\* the run receives the earlier list unchanged as a prefix.
C20_MessageOrder == []MessageOrder /\ [][MessagesGrow]_vars

----------------------------------------------------------------------------
(* Properties of the metrics and of the trace id *)

\* C21: on a successful run metrics.tokens is the total_tokens of the usage
\* of the last generation call of the run, 0 when that call reported no
\* usage or no total_tokens; the handler's answer carries the same number.
C21_TokensOfLastGeneration ==
    \A f \in Frames :
        /\ f.pc = "returned" =>
                /\ f.outcome.tokens = TotalTokens(f.last_usage)
                /\ f.outcome.tokens <= f.usage_sum
        /\ (f.pc = "done" /\ f.via = "handler" /\ f.outcome.status = "success") =>
                f.http.metrics.tokens = f.outcome.tokens

\* a run of two generation calls succeeded: the first reported tokens, the
\* last a dict usage of 5, and 5 is the number returned
C21_Witness ==
    \E f \in Frames :
        /\ f.pc = "returned"
        /\ f.gen_calls = 2
        /\ f.last_usage = UsageDict(Tokens(5))
        /\ f.usage_sum > 5
        /\ f.outcome.tokens = 5

\* C22 (as claimed): the trace_id of an execution result is the one supplied
\* with the request whenever one was supplied, the empty string included, in
\* the success and in the error outcome; a fresh one is generated only when
\* none was supplied.
C22_TraceIdEchoed ==
    \A f \in Frames :
        /\ (f.pc = "returned" /\ f.trace_id # None) => f.outcome.trace_id = f.trace_id
        /\ (f.pc = "returned" /\ f.trace_id = None) => f.outcome.trace_id = "uuid4"
        /\ (f.pc = "done" /\ f.via = "handler" /\ f.http.kind = "response") =>
                f.http.trace_id = f.trace_id

\* the same for the trace ids that are not the empty string
C22_NonEmptyTraceIdEchoed ==
    \A f \in Frames :
        f.trace_id # "" =>
            /\ (f.pc = "returned" /\ f.trace_id # None) => f.outcome.trace_id = f.trace_id
            /\ (f.pc = "returned" /\ f.trace_id = None) => f.outcome.trace_id = "uuid4"
            /\ (f.pc = "done" /\ f.via = "handler" /\ f.http.kind = "response") =>
                    f.http.trace_id = f.trace_id

----------------------------------------------------------------------------
(* Properties of a tool-calling round *)

\* messages[k] opens a round: an assistant message carrying tool calls
OpensRound(messages, k) ==
    messages[k].role = "assistant" /\ messages[k].tool_calls # << >>

\* the round opened at k is followed by the tool messages of its first m
\* calls, in the order of the calls, each carrying the id and name of its call
FollowedBy(messages, k, m) ==
    /\ k + m <= Len(messages)
    /\ \A i \in 1..m :
            /\ messages[k + i].role = "tool"
            /\ messages[k + i].tool_call_id = messages[k].tool_calls[i].id
            /\ messages[k + i].name = messages[k].tool_calls[i].name
    /\ k + m < Len(messages) => messages[k + m + 1].role # "tool"

\* the round that messages[k], a tool message, belongs to
RoundOf(messages, k) ==
    CHOOSE j \in 0..(k - 1) :
        /\ j > 0 => OpensRound(messages, j)
        /\ \A i \in (j + 1)..(k - 1) : ~OpensRound(messages, i)

----------------------------------------------------------------------------
(* Properties of the validator's rules taken together *)

\* the ids that occur in the graph, as node or as end of an edge
Vertices(graph) == NodeIds(graph.nodes) \cup Sources(graph.edges) \cup Targets(graph.edges)
EdgePairs(graph) ==
    {<<graph.edges[i].source, graph.edges[i].target>> : i \in 1..Len(graph.edges)}

\* a depth-first traversal from the listed nodes meets a directed cycle
ReachableCycle(graph) ==
    LET P == PathsUpTo(EdgePairs(graph), Cardinality(Vertices(graph)))
    IN  \E n \in NodeIds(graph.nodes), m \in Vertices(graph) :
            (n = m \/ <<n, m>> \in P) /\ <<m, m>> \in P

\* the place of an error's rule in the order of the rules
RuleRank(error) ==
    CASE error[1] = "Orchestration has no nodes" -> 1
      [] error[1] = "Entry node not found in nodes" -> 2
      [] error[1] \in {"Edge source not found in nodes", "Edge target not found in nodes"} -> 3
      [] error[1] = "Circular dependency detected in orchestration graph" -> 4
      [] error[1] = "Agent referenced in node not found" -> 5
      [] OTHER -> 6

\* what each rule, taken alone, finds in the graph is what the lists hold
RulesAlone(graph, errors, warnings) ==
    LET ids == NodeIds(graph.nodes)
        entry == graph.entry_node
    IN  /\ Count(errors, <<"Orchestration has no nodes">>) = IF graph.nodes = << >> THEN 1 ELSE 0
        /\ \A e \in {None, "a", UnlistedId} :
                Count(errors, <<"Entry node not found in nodes", e>>)
                    = IF e = entry /\ ~Falsy(entry) /\ entry \notin ids THEN 1 ELSE 0
        /\ \A v \in Vertices(graph) :
                /\ Count(errors, <<"Edge source not found in nodes", v>>)
                        = IF v \in ids THEN 0
                          ELSE Cardinality({i \in 1..Len(graph.edges) : graph.edges[i].source = v})
                /\ Count(errors, <<"Edge target not found in nodes", v>>)
                        = IF v \in ids THEN 0
                          ELSE Cardinality({i \in 1..Len(graph.edges) : graph.edges[i].target = v})
        /\ Count(errors, CircularError) = IF ReachableCycle(graph) THEN 1 ELSE 0
        /\ \A i \in 1..Len(graph.nodes) :
                Count(errors, <<"Agent referenced in node not found",
                                graph.nodes[i].agent_id, graph.nodes[i].id>>)
                    = IF graph.nodes[i].type = "agent" /\ ~Falsy(graph.nodes[i].agent_id)
                         /\ graph.nodes[i].agent_id \notin DOMAIN agents
                      THEN 1 ELSE 0
        /\ Count(warnings, <<"No entry node specified">>) = IF Falsy(entry) THEN 1 ELSE 0
        /\ \A v \in ids :
                Count(warnings, <<"Node has no connections", v>>)
                    = IF v \notin Sources(graph.edges) /\ v \notin Targets(graph.edges)
                         /\ v # entry
                      THEN 1 ELSE 0

\* C24: graph validation never short-circuits: on every graph every rule is
\* evaluated, so the errors and warnings of a rule are there whatever the other
\* rules found, and errors is ordered by rule: no-nodes, entry-node, edge
\* endpoints, cycle, agent references.
C24_RulesAccumulate ==
    FreshValidation =>
        /\ RulesAlone(ValidatedGraph, validation.errors, validation.warnings)
        /\ \A i, j \in 1..Len(validation.errors) :
                i < j => RuleRank(validation.errors[i]) <= RuleRank(validation.errors[j])
        /\ \A i \in 1..Len(validation.errors) : RuleRank(validation.errors[i]) <= 5

\* an unlisted entry node, a dangling edge, a cycle and an unresolved agent in
\* one graph: four rules report, in the order of the rules
C24_Witness ==
    /\ FreshValidation
    /\ Len(validation.errors) = 4
    /\ RuleRank(validation.errors[1]) = 2
    /\ RuleRank(validation.errors[2]) = 3
    /\ RuleRank(validation.errors[3]) = 4
    /\ RuleRank(validation.errors[4]) = 5

\* the edge relation of the graph has no directed cycle
Acyclic(graph) ==
    \A m \in Vertices(graph) :
        <<m, m>> \notin PathsUpTo(EdgePairs(graph), Cardinality(Vertices(graph)))

\* C25: cycle detection has no false positives: for every graph whose edge
\* relation has no directed cycle (a node reached by two paths, as in the
\* diamond a->b, a->c, b->d, c->d, and duplicate edges included), in every
\* order of the nodes and edges lists, the circular-dependency error is not
\* reported.
C25_NoFalseCycle ==
    (FreshValidation /\ Acyclic(ValidatedGraph)) =>
        Count(validation.errors, CircularError) = 0

\* the diamond, its edges and nodes out of order, validated without an error
C25_Witness ==
    /\ FreshValidation
    /\ ValidatedGraph.edges = << Edge("c", "d"), Edge("a", "c"), Edge("b", "d"), Edge("a", "b") >>
    /\ ValidatedGraph.nodes[1].id = "d"
    /\ ValidatedGraph.nodes[2].id = "a"
    /\ validation.valid
    /\ validation.errors = << >>

----------------------------------------------------------------------------
(* The deploy-time validator and the validate endpoint *)

----------------------------------------------------------------------------
(* Properties of the application store *)

\* the moves of a status
StatusMoves == {<<"Draft", "Deployed">>, <<"Draft", "Archived">>, <<"Deployed", "Archived">>}

\* a step leaves the status of every application as it is or moves it along
\* StatusMoves, and a deploy that changes a status finds it Draft
StatusStep ==
    \A app_id \in DOMAIN apps \cap DOMAIN apps' :
        /\ apps'[app_id].status # apps[app_id].status =>
                <<apps[app_id].status, apps'[app_id].status>> \in StatusMoves
        /\ (deploy_app(app_id) /\ apps' # apps) =>
                (apps[app_id].status = "Draft" /\ apps'[app_id].status = "Deployed")

\* C27: whatever update, deploy and archive requests are served, the status of
\* an application only moves Draft -> Deployed, Draft -> Archived or
\* Deployed -> Archived: a Deployed app never returns to Draft, deploy is
\* accepted only from Draft, and no request changes the status of an Archived app.
C27_StatusMoves == [][StatusStep]_vars

\* app-1, seeded Deployed, and app-2, seeded Draft, have both been archived
C27_Witness ==
    /\ AppId(1) \in DOMAIN apps /\ apps[AppId(1)].status = "Archived"
    /\ AppId(2) \in DOMAIN apps /\ apps[AppId(2)].status = "Archived"

\* POST /{app_id}/deploy answers with an error: the app is not stored, is not in
\* Draft, has an agent whose config is missing or invalid, has no orchestration,
\* or has a graph with errors
DeployRejected(app_id) ==
    \/ app_id \notin DOMAIN apps
    \/ apps[app_id].status # "Draft"
    \/ \E a \in DOMAIN agents :
            agents[a].app_id = app_id /\ agents[a].config # ValidConfig
    \/ app_id \notin DOMAIN orchestrations
    \/ GraphErrors(orchestrations[app_id], agents) # << >>

\* C28: a rejected deploy changes nothing: when POST /{app_id}/deploy fails, the
\* status of the app and every stored app, agent and orchestration record are
\* the same after the request as before it.
C28_RejectedDeployChangesNothing ==
    [][\A app_id \in AllAppIds :
            (deploy_app(app_id) /\ DeployRejected(app_id)) =>
                (apps' = apps /\ agents' = agents /\ orchestrations' = orchestrations)]_vars

\* every request served was a deploy, and app-2 is still Draft with an agent
\* that has no config and a graph with a cycle: each one of them was rejected
C28_Witness ==
    /\ served = MaxRequests
    /\ AppId(2) \in DOMAIN apps /\ apps[AppId(2)].status = "Draft"
    /\ \E a \in DOMAIN agents : agents[a].app_id = AppId(2) /\ agents[a].config = None
    /\ AppId(2) \in DOMAIN orchestrations /\ orchestrations[AppId(2)] = CyclicGraph

----------------------------------------------------------------------------
(* Properties of Memory after a failed run *)

\* the run failed on its final text: no JSON in it, or a value the output schema rejects
OutputError(f) ==
    /\ f.outcome.status = "error" /\ f.outcome.exc_type = "ValueError"
    /\ f.outcome.exc_msg \in {"Invalid output: empty response",
                              "Invalid output: could not parse JSON", "Invalid output"}

\* the run failed by input validation, by the model client, or by max iterations
EarlyError(f) ==
    /\ f.outcome.status = "error"
    /\ \/ f.outcome.exc_type = "ValueError" /\ f.outcome.exc_msg = "Invalid input"
       \/ f.outcome.exc_type = "APIError"
       \/ MaxIterationsError(f)

\* C29: the final assistant text is added to Memory before extraction and
\* output validation: after a run that fails with an output parse error or an
\* output validation error Memory holds exactly one message, the assistant
\* message with that final text; after a run that fails by input validation,
\* model-client failure or max iterations, Memory is empty.
C29_MemoryAfterFailure ==
    \A f \in Frames :
        f.pc \in {"raised", "done"} =>
            /\ OutputError(f) =>
                    BufferMemory_get(memory) = << Message("assistant", f.final_text, f.run) >>
            /\ EarlyError(f) => BufferMemory_get(memory) = << >>

\* a second run, after tool-calling rounds, failed output validation and its
\* final text is the one message of Memory
C29_Witness ==
    \E f \in Frames :
        /\ f.pc = "done" /\ f.run = 2 /\ f.tool_responses >= 1
        /\ f.outcome.exc_msg = "Invalid output"
        /\ Len(memory.messages) = 1 /\ memory.messages[1].content = f.final_text

----------------------------------------------------------------------------
(* Properties of agent_count *)

\* C30 (as claimed): in every state reachable from the seeded store, the
\* agent_count of each stored application equals the number of stored agents
\* whose app_id is that application's id, and agent_count is never negative.
C30_AgentCountMatches ==
    \A app_id \in DOMAIN apps :
        /\ apps[app_id].agent_count = Cardinality(InMemoryStorage_list_agents(app_id))
        /\ apps[app_id].agent_count >= 0

====
